---- MODULE Spec2Model ----
(***************************************************************************)
(* Model of the custodial Polymarket trading server:                       *)
(*   - WalletService (src/src/services/wallet.service.ts): Safe            *)
(*     deployment, recovery, token approvals, CLOB credentials, fullSetup  *)
(*     and syncWalletState, as one account's persisted record plus the     *)
(*     position of the call in flight;                                     *)
(*   - the atomic batch executor, in its two entrypoints: the REST route   *)
(*     POST /execute-atomic (src/src/routes/orders.ts) and the MCP tool    *)
(*     execute_atomic_orders (src/unnamed/part_004).                       *)
(*   - OrderService.createOrder (src/src/services/order.service.ts): the  *)
(*     single-order submit with its neg-risk routing cache.                *)
(* External collaborators (relayer, chain RPC, CLOB) answer                *)
(* nondeterministically; the database is taken to be reliable.             *)
(***************************************************************************)
EXTENDS Integers, Sequences, FiniteSets, TLC

VARIABLES
  \* ---- persisted account record and the wallet call in flight ----
  user,            \* the prisma user row
  builderConfigured, \* config.builder.* present (process configuration)
  op,              \* top-level WalletService call in flight, or "idle"
  phase,           \* position of fullSetup / syncWalletState / reset
  pc,              \* position inside the current method
  loc,             \* locals of the methods in flight
  last,            \* outcome of the method that just returned
  out,             \* outcome of the top-level call that returned last
  pre,             \* the user row when the current method was entered
  deploys,         \* relayClient.deploy() calls made by the current method
  relayReturned,   \* proxy addresses the relayer returned for a deployment
  codeSeen,        \* addresses at which getCode returned bytecode
  \* ---- atomic batch ----
  entry,           \* "rest" | "mcp" | "none"
  bpc,             \* position inside the batch handler
  orders,          \* orders.length of the request
  i,               \* loop index of the order loop (1-based)
  k,               \* loop index of the rollback loop (1-based)
  hasFailure,
  submittedOrders, \* clobOrderIds accepted so far, in order
  orderResults,    \* orderResults array
  dbOrders,        \* prisma order rows created by the batch
  posted,          \* indices for which clobClient.postOrder was called
  outcomes,        \* what the remote order book answered, per index
  remoteLive,      \* remote orders accepted and not cancelled
  cancelCalls,     \* clobOrderIds for which cancelOrder was called
  response,        \* what the handler answered
  \* ---- OrderService.createOrder ----
  opc,             \* position inside createOrder
  params,          \* CreateOrderParams of the call in flight
  orderRows,       \* prisma order rows created by createOrder
  marketNegRiskCache, \* Map<conditionId, boolean>
  oloc,            \* locals of the call in flight
  oresult,         \* how the call ended
  \* ---- OrderService.cancelOrder / cancelAllOrders ----
  orderTable,      \* prisma order rows of all users
  cpc,             \* position inside cancelOrder
  cloc,            \* caller, arguments and locals of the cancel call
  cresult,         \* what the cancel call answered
  \* ---- API key issuance ----
  users,           \* externalIds that have a prisma user row
  userApiKeys,     \* prisma userApiKey rows, in order of creation
  \* ---- getPredictedSafeAddress ----
  predictCalls,    \* the calls made so far: owner given, address returned
  \* ---- concurrent deploySafeWallet calls on one account ----
  rpc,             \* position of each call
  rsnap,           \* the user row each call read with findUnique
  rres             \* how each call ended

walletVars == <<user, builderConfigured, op, phase, pc, loc, last, out, pre,
                deploys, relayReturned, codeSeen>>
batchVars  == <<entry, bpc, orders, i, k, hasFailure, submittedOrders,
                orderResults, dbOrders, posted, outcomes, remoteLive,
                cancelCalls, response>>
orderVars  == <<opc, params, orderRows, marketNegRiskCache, oloc, oresult>>
cancelVars == <<orderTable, cpc, cloc, cresult>>
keyVars    == <<users, userApiKeys>>
predictVars == <<predictCalls>>
raceVars   == <<rpc, rsnap, rres>>
vars == <<walletVars, batchVars, orderVars, cancelVars, keyVars, predictVars, raceVars>>

\* ------------------------------------------------------------------------
\* Bounds
MaxOrders == 3          \* largest batch explored

\* Program constants
MaxAtomicOrders == 10   \* orders.length > 10 is rejected
maxRetries == 3         \* deploySafeWallet submission attempts

None == "none"
Addr == {"P", "X"}      \* "P" is the CREATE2-predicted Safe address
Predicted == "P"

\* ------------------------------------------------------------------------
\* The account record
Statuses == <<"CREATED", "SAFE_DEPLOYING", "SAFE_DEPLOYED", "SETTING_UP", "READY">>

Rank(s) == CHOOSE n \in 1..Len(Statuses) : Statuses[n] = s

FreshUser ==
  [status |-> "CREATED", safeAddress |-> None, safeDeployed |-> FALSE,
   usdcApproved |-> FALSE, ctfApproved |-> FALSE, negRiskApproved |-> FALSE,
   apiSecret |-> None]

\* errors as the code inspects them: which "already deployed" phrase the
\* message contains, and the first 0x-address in the message
ErrKinds == {"other", "alreadyDeployed", "proxyExists"}
Err(kind, addr) == [kind |-> kind, addr |-> addr]
NoErr == Err(None, None)
Errors == {Err(kd, a) : kd \in ErrKinds, a \in Addr \cup {None}}

NoLoc ==
  [attempt |-> 0, known |-> None, respTx |-> FALSE, lastErr |-> NoErr,
   err |-> NoErr, recAddr |-> None, unresolved |-> FALSE,
   named |-> None, noCode |-> {}, polled |-> None, executes |-> 0,
   credCalls |-> <<>>, resetFrom |-> FreshUser, approvalPoll |-> None,
   batch |-> {},
   cand |-> None, rAddr |-> None,
   force |-> FALSE, creds |-> None,
   continueSetup |-> FALSE, sSafeAddress |-> None, sSafeDeployed |-> FALSE,
   sCreds |-> FALSE, sApprovals |-> FALSE, fsAddr |-> None]
NoLast == [sub |-> None, kind |-> None, val |-> None, err |-> NoErr, path |-> None]
NoOut == [op |-> None, kind |-> None, val |-> None, ready |-> FALSE]

InitWalletVars ==
  /\ user = FreshUser
  /\ builderConfigured \in BOOLEAN
  /\ op = "idle" /\ phase = None /\ pc = "idle"
  /\ loc = NoLoc /\ last = NoLast /\ out = NoOut
  /\ pre = FreshUser
  /\ deploys = 0
  /\ relayReturned = {} /\ codeSeen = {}

\* ------------------------------------------------------------------------
\* WalletService: calls and returns

\* a method returns (kind "return") or throws (kind "throw")
Return(sub, kind, val, err, path) ==
  /\ pc' = "returned"
  /\ last' = [sub |-> sub, kind |-> kind, val |-> val, err |-> err, path |-> path]

\* the prisma.activityLog.create a method executes on the way to a return
\* site: saveSafeDeployment and the recovery branch of deploy write
\* SAFE_DEPLOYED, recoverSafeAddress writes SAFE_RECOVERED after it saved,
\* setTokenApprovals writes TOKEN_APPROVALS_SET after a confirmed poll,
\* createApiCredentials writes API_CREDENTIALS_CREATED after it stored; no
\* throw statement and no catch block of these methods writes an entry
AuditEntry(sub, kind, path) ==
  IF kind = "throw" THEN None
  ELSE IF sub = "deploy"
    THEN IF path = "cached" THEN None ELSE "SAFE_DEPLOYED"
  ELSE IF sub = "recover"
    THEN IF path \in {"cached", "notfound"} THEN None ELSE "SAFE_RECOVERED"
  ELSE IF sub = "ensure"
    THEN IF path = "confirmed" THEN "TOKEN_APPROVALS_SET" ELSE None
  ELSE IF sub = "create" THEN "API_CREDENTIALS_CREATED"
  ELSE None

\* entering method sub at its first statement
Call(sub, label) ==
  /\ pc' = label
  /\ pre' = user
  /\ deploys' = 0

\* provider.getCode(address): bytecode, '0x', or a provider error
CodeReads == {"code", "empty", "throws"}

\* ------------------------------------------------------------------------
\* deploySafeWallet

\* if (user.safeDeployed && user.safeAddress) return user.safeAddress
DeployGuardNever(u) == FALSE

DeployGuard(u) == u.safeDeployed /\ u.safeAddress # None

\* saveSafeDeployment / the user update of the recovery paths
SaveUnchecked(u, a) ==
  [u EXCEPT !.safeAddress = Predicted, !.safeDeployed = TRUE, !.status = "SAFE_DEPLOYED"]

Saved(u, a) ==
  [u EXCEPT !.safeAddress = a, !.safeDeployed = TRUE, !.status = "SAFE_DEPLOYED"]

\* the revert of the catch block
RevertKeep(u) == u

RevertDeploy(u) == [u EXCEPT !.status = "CREATED"]

DeployEnter ==
  /\ pc = "d_enter"
  /\ IF DeployGuard(user)
       THEN /\ Return("deploy", "return", user.safeAddress, NoErr, "cached")
            /\ UNCHANGED <<user, loc>>
       ELSE /\ user' = [user EXCEPT !.status = "SAFE_DEPLOYING"]
            /\ IF builderConfigured
                 THEN /\ pc' = "d_submit"
                      /\ loc' = [loc EXCEPT !.attempt = 1, !.known = None,
                                            !.respTx = FALSE, !.lastErr = NoErr,
                                            !.err = NoErr, !.recAddr = None,
                                            !.unresolved = FALSE,
                                            !.named = None, !.noCode = {},
                                            !.polled = None]
                 ELSE /\ pc' = "d_catch"
                      /\ loc' = [loc EXCEPT !.err = Err("other", None),
                                            !.unresolved = FALSE,
                                            !.named = None, !.noCode = {},
                                            !.polled = None]
            /\ UNCHANGED last
  /\ UNCHANGED <<builderConfigured, op, phase, out, pre, deploys,
                 relayReturned, codeSeen>>
  /\ UNCHANGED <<batchVars, orderVars, cancelVars, keyVars, predictVars, raceVars>>

\* bookkeeping of what one deploySafeWallet call was told: the address named
\* by the first "already deployed" error, the addresses whose getCode read did
\* not show bytecode
NamedBy(e, named) ==
  IF e.kind = "alreadyDeployed" /\ e.addr # None /\ named = None
    THEN e.addr ELSE named

NoteRead(l, a, c) ==
  IF c = "code" THEN l ELSE [l EXCEPT !.noCode = l.noCode \cup {a}]

\* relayClient.deploy() inside the retry loop
DeploySubmitResponse(proxy, tx) ==
  /\ pc = "d_submit"
  /\ deploys' = deploys + 1
  /\ IF proxy # None
       THEN /\ relayReturned' = relayReturned \cup {proxy}
            /\ loc' = [loc EXCEPT !.known = proxy, !.respTx = tx]
            /\ pc' = "d_code_resp"
       ELSE /\ UNCHANGED relayReturned
            /\ IF tx
                 THEN /\ loc' = [loc EXCEPT !.respTx = TRUE]
                      /\ pc' = "d_poll"
                 ELSE \* throw new Error('No transaction ID in deploy response')
                      /\ loc' = [loc EXCEPT !.respTx = FALSE,
                                            !.lastErr = Err("other", None)]
                      /\ pc' = "d_code_err"
  /\ UNCHANGED <<user, builderConfigured, op, phase, last, out, pre, codeSeen>>
  /\ UNCHANGED <<batchVars, orderVars, cancelVars, keyVars, predictVars, raceVars>>

DeploySubmitThrows(e) ==
  /\ pc = "d_submit"
  /\ deploys' = deploys + 1
  /\ loc' = [loc EXCEPT !.lastErr = e,
                        !.known = IF e.addr # None /\ loc.known = None
                                    THEN e.addr ELSE loc.known,
                        !.named = NamedBy(e, loc.named)]
  /\ pc' = "d_code_err"
  /\ UNCHANGED <<user, builderConfigured, op, phase, last, out, pre,
                 relayReturned, codeSeen>>
  /\ UNCHANGED <<batchVars, orderVars, cancelVars, keyVars, predictVars, raceVars>>

\* getCode(proxyAddr) on the address of the deploy response
DeployCodeResp(c) ==
  /\ pc = "d_code_resp"
  /\ IF c = "code"
       THEN /\ codeSeen' = codeSeen \cup {loc.known}
            /\ user' = Saved(user, loc.known)
            /\ Return("deploy", "return", loc.known, NoErr, "pre-existing")
            /\ UNCHANGED loc
       ELSE /\ UNCHANGED <<codeSeen, user, last>>
            /\ IF c = "empty" /\ loc.respTx
                 THEN pc' = "d_poll" /\ loc' = NoteRead(loc, loc.known, c)
                 ELSE \* no transaction id, or getCode threw: inner catch
                      /\ loc' = [NoteRead(loc, loc.known, c) EXCEPT
                                   !.lastErr = Err("other", None)]
                      /\ pc' = "d_code_err"
  /\ UNCHANGED <<builderConfigured, op, phase, out, pre, deploys, relayReturned>>
  /\ UNCHANGED <<batchVars, orderVars, cancelVars, keyVars, predictVars, raceVars>>

\* inner catch: getCode(knownProxyWallet || predicted), then retry or give up
DeployCodeErr(c) ==
  /\ pc = "d_code_err"
  /\ LET a == IF loc.known # None THEN loc.known ELSE Predicted IN
     IF c = "code"
       THEN /\ codeSeen' = codeSeen \cup {a}
            /\ user' = Saved(user, a)
            /\ Return("deploy", "return", a, NoErr, "pre-existing")
            /\ UNCHANGED loc
       ELSE /\ UNCHANGED <<codeSeen, user, last>>
            /\ IF c = "throws"
                 THEN /\ loc' = [NoteRead(loc, a, c) EXCEPT !.err = Err("other", None)]
                      /\ pc' = "d_catch"
                 ELSE IF loc.attempt < maxRetries
                   THEN /\ loc' = [NoteRead(loc, a, c) EXCEPT
                                     !.attempt = loc.attempt + 1]
                        /\ pc' = "d_submit"
                   ELSE IF loc.respTx
                     THEN pc' = "d_poll" /\ loc' = NoteRead(loc, a, c)
                     ELSE \* throw lastError
                          /\ loc' = [NoteRead(loc, a, c) EXCEPT !.err = loc.lastErr]
                          /\ pc' = "d_catch"
  /\ UNCHANGED <<builderConfigured, op, phase, out, pre, deploys, relayReturned>>
  /\ UNCHANGED <<batchVars, orderVars, cancelVars, keyVars, predictVars, raceVars>>

\* relayClient.pollUntilState: a result with proxyAddress, a result without,
\* null on exhaustion, or a throw on STATE_FAILED
PollOutcomes == {"noProxy", "null", "throws"}

\* const safeAddress = result.proxyAddress
ResultAddressKnown(a, known) == IF known # None THEN known ELSE Predicted

ResultAddress(a, known) == a

DeployPollAddress(a) ==
  /\ pc = "d_poll"
  /\ relayReturned' = relayReturned \cup {a}
  /\ user' = Saved(user, ResultAddress(a, loc.known))
  /\ Return("deploy", "return", ResultAddress(a, loc.known), NoErr, "polled")
  /\ loc' = [loc EXCEPT !.polled = a]
  /\ UNCHANGED <<builderConfigured, op, phase, out, pre, deploys, codeSeen>>
  /\ UNCHANGED <<batchVars, orderVars, cancelVars, keyVars, predictVars, raceVars>>

DeployPollNoAddress(p) ==
  /\ pc = "d_poll"
  /\ pc' = IF loc.known # None THEN "d_code_known1" ELSE "d_code_pred"
  /\ UNCHANGED <<user, builderConfigured, op, phase, loc, last, out, pre,
                 deploys, relayReturned, codeSeen>>
  /\ UNCHANGED <<batchVars, orderVars, cancelVars, keyVars, predictVars, raceVars>>

\* the message of the final error names the known and the predicted address
UnresolvedErrAlready(known) ==
  Err("alreadyDeployed", IF known # None THEN known ELSE Predicted)

UnresolvedErr(known) == Err("other", IF known # None THEN known ELSE Predicted)

\* getCode(knownProxyWallet), first read and the read after the 5 s wait
DeployCodeKnown(c) ==
  /\ pc \in {"d_code_known1", "d_code_known2"}
  /\ IF c = "code"
       THEN /\ codeSeen' = codeSeen \cup {loc.known}
            /\ user' = Saved(user, loc.known)
            /\ Return("deploy", "return", loc.known, NoErr,
                      IF pc = "d_code_known1" THEN "recovered-known"
                                              ELSE "recovered-delayed")
            /\ UNCHANGED loc
       ELSE /\ UNCHANGED <<codeSeen, user, last>>
            /\ IF c = "throws"
                 THEN /\ loc' = [NoteRead(loc, loc.known, c) EXCEPT
                                   !.err = Err("other", None)]
                      /\ pc' = "d_catch"
                 ELSE IF pc = "d_code_known1"
                   THEN pc' = "d_code_known2" /\ loc' = NoteRead(loc, loc.known, c)
                   ELSE IF Predicted # loc.known
                     THEN pc' = "d_code_pred" /\ loc' = NoteRead(loc, loc.known, c)
                     ELSE /\ loc' = [NoteRead(loc, loc.known, c) EXCEPT
                                       !.err = UnresolvedErr(loc.known),
                                       !.unresolved = TRUE]
                          /\ pc' = "d_catch"
  /\ UNCHANGED <<builderConfigured, op, phase, out, pre, deploys, relayReturned>>
  /\ UNCHANGED <<batchVars, orderVars, cancelVars, keyVars, predictVars, raceVars>>

\* getCode(predictedAddress), the last fallback
DeployCodePred(c) ==
  /\ pc = "d_code_pred"
  /\ IF c = "code"
       THEN /\ codeSeen' = codeSeen \cup {Predicted}
            /\ user' = Saved(user, Predicted)
            /\ Return("deploy", "return", Predicted, NoErr, "recovered-predicted")
            /\ UNCHANGED loc
       ELSE /\ UNCHANGED <<codeSeen, user, last>>
            /\ pc' = "d_catch"
            /\ loc' = IF c = "throws"
                        THEN [NoteRead(loc, Predicted, c) EXCEPT
                                !.err = Err("other", None)]
                        ELSE [NoteRead(loc, Predicted, c) EXCEPT
                                !.err = UnresolvedErr(loc.known),
                                !.unresolved = TRUE]
  /\ UNCHANGED <<builderConfigured, op, phase, out, pre, deploys, relayReturned>>
  /\ UNCHANGED <<batchVars, orderVars, cancelVars, keyVars, predictVars, raceVars>>

\* the outer catch: "already deployed" errors are treated as success if the
\* Safe can be found, everything else reverts the status and rethrows
IsAlreadyDeployed(e) == e.kind \in {"alreadyDeployed", "proxyExists"}

DeployCatch ==
  /\ pc = "d_catch"
  /\ IF IsAlreadyDeployed(loc.err) /\ builderConfigured
       THEN /\ loc' = [loc EXCEPT !.recAddr = loc.err.addr]
            /\ pc' = IF loc.err.addr # None THEN "d_code_rec" ELSE "d_retry"
            /\ UNCHANGED <<user, last>>
       ELSE /\ user' = RevertDeploy(user)
            /\ Return("deploy", "throw", None, loc.err,
                      IF loc.unresolved THEN "unresolved" ELSE "failed")
            /\ UNCHANGED loc
  /\ UNCHANGED <<builderConfigured, op, phase, out, pre, deploys,
                 relayReturned, codeSeen>>
  /\ UNCHANGED <<batchVars, orderVars, cancelVars, keyVars, predictVars, raceVars>>

\* Method 2 of the catch block: another relayClient.deploy() to learn the
\* address; Method 3: the predicted address
DeployRetryResponse(proxy) ==
  /\ pc = "d_retry"
  /\ deploys' = deploys + 1
  /\ relayReturned' = IF proxy # None THEN relayReturned \cup {proxy}
                                      ELSE relayReturned
  /\ loc' = [loc EXCEPT !.recAddr = IF proxy # None THEN proxy ELSE Predicted]
  /\ pc' = "d_code_rec"
  /\ UNCHANGED <<user, builderConfigured, op, phase, last, out, pre, codeSeen>>
  /\ UNCHANGED <<batchVars, orderVars, cancelVars, keyVars, predictVars, raceVars>>

DeployRetryThrows(e) ==
  /\ pc = "d_retry"
  /\ deploys' = deploys + 1
  /\ loc' = [loc EXCEPT !.recAddr = IF e.addr # None THEN e.addr ELSE Predicted,
                        !.named = NamedBy(e, loc.named)]
  /\ pc' = "d_code_rec"
  /\ UNCHANGED <<user, builderConfigured, op, phase, last, out, pre,
                 relayReturned, codeSeen>>
  /\ UNCHANGED <<batchVars, orderVars, cancelVars, keyVars, predictVars, raceVars>>

\* getCode(safeAddress) of the catch block
DeployCodeRec(c) ==
  /\ pc = "d_code_rec"
  /\ IF c = "code"
       THEN /\ codeSeen' = codeSeen \cup {loc.recAddr}
            /\ user' = Saved(user, loc.recAddr)
            /\ Return("deploy", "return", loc.recAddr, NoErr, "already-deployed")
       ELSE /\ UNCHANGED codeSeen
            /\ user' = RevertDeploy(user)
            /\ Return("deploy", "throw", None, loc.err, "failed")
  /\ loc' = NoteRead(loc, loc.recAddr, c)
  /\ UNCHANGED <<builderConfigured, op, phase, out, pre, deploys,
                 relayReturned>>
  /\ UNCHANGED <<batchVars, orderVars, cancelVars, keyVars, predictVars, raceVars>>

DeploySteps ==
  \/ DeployEnter
  \/ \E proxy \in Addr \cup {None}, tx \in BOOLEAN : DeploySubmitResponse(proxy, tx)
  \/ \E e \in Errors : DeploySubmitThrows(e)
  \/ \E c \in CodeReads : DeployCodeResp(c)
  \/ \E c \in CodeReads : DeployCodeErr(c)
  \/ \E a \in Addr : DeployPollAddress(a)
  \/ \E p \in PollOutcomes : DeployPollNoAddress(p)
  \/ \E c \in CodeReads : DeployCodeKnown(c)
  \/ \E c \in CodeReads : DeployCodePred(c)
  \/ DeployCatch
  \/ \E proxy \in Addr \cup {None} : DeployRetryResponse(proxy)
  \/ \E e \in Errors : DeployRetryThrows(e)
  \/ \E c \in CodeReads : DeployCodeRec(c)

\* ------------------------------------------------------------------------
\* recoverSafeAddress(userId, knownSafeAddress?)

\* the user update of recoverSafeAddress
RecoverSaved(u, a) ==
  [u EXCEPT !.safeAddress = a, !.safeDeployed = TRUE, !.status = "SAFE_DEPLOYED"]

RecoverEnter ==
  /\ pc = "r_enter"
  /\ IF user.safeDeployed /\ user.safeAddress # None
       THEN /\ Return("recover", "return", user.safeAddress, NoErr, "cached")
            /\ UNCHANGED loc
       ELSE /\ UNCHANGED last
            /\ IF loc.cand # None
                 THEN pc' = "r_code_given" /\ loc' = [loc EXCEPT !.rAddr = loc.cand]
                 ELSE pc' = "r_code_pred" /\ loc' = [loc EXCEPT !.rAddr = Predicted]
  /\ UNCHANGED <<user, builderConfigured, op, phase, out, pre, deploys,
                 relayReturned, codeSeen>>
  /\ UNCHANGED <<batchVars, orderVars, cancelVars, keyVars, predictVars, raceVars>>

\* getCode on the provided address, then on the predicted address
RecoverCode(c) ==
  /\ pc \in {"r_code_given", "r_code_pred"}
  /\ IF c = "code"
       THEN /\ codeSeen' = codeSeen \cup {loc.rAddr}
            /\ user' = RecoverSaved(user, loc.rAddr)
            /\ Return("recover", "return", loc.rAddr, NoErr,
                      IF pc = "r_code_given" THEN "given" ELSE "predicted")
            /\ UNCHANGED loc
       ELSE /\ UNCHANGED <<codeSeen, user>>
            /\ IF c = "throws"
                 THEN /\ Return("recover", "throw", None, Err("other", None), "failed")
                      /\ UNCHANGED loc
                 ELSE IF pc = "r_code_given"
                   THEN /\ pc' = "r_code_pred"
                        /\ loc' = [loc EXCEPT !.rAddr = Predicted]
                        /\ UNCHANGED last
                   ELSE IF builderConfigured
                     THEN /\ pc' = "r_deploy"
                          /\ loc' = [loc EXCEPT !.rAddr = None]
                          /\ UNCHANGED last
                     ELSE /\ Return("recover", "return", None, NoErr, "notfound")
                          /\ UNCHANGED loc
  /\ UNCHANGED <<builderConfigured, op, phase, out, pre, deploys, relayReturned>>
  /\ UNCHANGED <<batchVars, orderVars, cancelVars, keyVars, predictVars, raceVars>>

\* Method 2: relayClient.deploy(); a proxyAddress in the response is taken as
\* the Safe address
RecoverDeployResponse(proxy) ==
  /\ pc = "r_deploy"
  /\ deploys' = deploys + 1
  /\ IF proxy # None
       THEN /\ relayReturned' = relayReturned \cup {proxy}
            /\ user' = RecoverSaved(user, proxy)
            /\ Return("recover", "return", proxy, NoErr, "relay-response")
       ELSE /\ UNCHANGED <<relayReturned, user>>
            /\ Return("recover", "return", None, NoErr, "notfound")
  /\ UNCHANGED <<builderConfigured, op, phase, loc, out, pre, codeSeen>>
  /\ UNCHANGED <<batchVars, orderVars, cancelVars, keyVars, predictVars, raceVars>>

RecoverDeployThrows(e) ==
  /\ pc = "r_deploy"
  /\ deploys' = deploys + 1
  /\ IF e.addr # None
       THEN /\ pc' = "r_code_err"
            /\ loc' = [loc EXCEPT !.rAddr = e.addr]
            /\ UNCHANGED last
       ELSE /\ Return("recover", "return", None, NoErr, "notfound")
            /\ UNCHANGED loc
  /\ UNCHANGED <<user, builderConfigured, op, phase, out, pre, relayReturned,
                 codeSeen>>
  /\ UNCHANGED <<batchVars, orderVars, cancelVars, keyVars, predictVars, raceVars>>

\* getCode on the address extracted from the deploy error
RecoverCodeErr(c) ==
  /\ pc = "r_code_err"
  /\ IF c = "code"
       THEN /\ codeSeen' = codeSeen \cup {loc.rAddr}
            /\ user' = RecoverSaved(user, loc.rAddr)
            /\ Return("recover", "return", loc.rAddr, NoErr, "relay-error")
       ELSE /\ UNCHANGED <<codeSeen, user>>
            /\ IF c = "throws"
                 THEN Return("recover", "throw", None, Err("other", None), "failed")
                 ELSE Return("recover", "return", None, NoErr, "notfound")
  /\ UNCHANGED <<builderConfigured, op, phase, loc, out, pre, deploys,
                 relayReturned>>
  /\ UNCHANGED <<batchVars, orderVars, cancelVars, keyVars, predictVars, raceVars>>

RecoverSteps ==
  \/ RecoverEnter
  \/ \E c \in CodeReads : RecoverCode(c)
  \/ \E proxy \in Addr \cup {None} : RecoverDeployResponse(proxy)
  \/ \E e \in Errors : RecoverDeployThrows(e)
  \/ \E c \in CodeReads : RecoverCodeErr(c)

\* ------------------------------------------------------------------------
\* setTokenApprovals(userId, force)

\* the (token, spender) approvals pushed for the flags that are not set
UsdcPairsExchangeOnly == {"USDC>CtfExchange"}

UsdcPairs == {"USDC>CtfExchange", "USDC>NegRiskCtfExchange", "USDC>NegRiskAdapter"}
CtfPairs == {"CTF>CtfExchange"}
NegRiskPairs == {"CTF>NegRiskCtfExchange", "CTF>NegRiskAdapter"}

SafeTransactionsAll(u, force) == UsdcPairs \cup CtfPairs \cup NegRiskPairs

SafeTransactions(u, force) ==
  (IF ~u.usdcApproved \/ force THEN UsdcPairs ELSE {})
    \cup (IF ~u.ctfApproved \/ force THEN CtfPairs ELSE {})
    \cup (IF ~u.negRiskApproved \/ force THEN NegRiskPairs ELSE {})

FlagsCleared(u) ==
  [u EXCEPT !.usdcApproved = FALSE, !.ctfApproved = FALSE, !.negRiskApproved = FALSE]

FlagsSet(u) ==
  [u EXCEPT !.usdcApproved = TRUE, !.ctfApproved = TRUE, !.negRiskApproved = TRUE]

EnsureEnter ==
  /\ pc = "e_enter"
  /\ IF user.safeAddress = None
       THEN /\ Return("ensure", "throw", None, Err("other", None), "nosafe")
            /\ UNCHANGED user
       ELSE LET u == IF loc.force THEN FlagsCleared(user) ELSE user IN
            /\ user' = u
            /\ IF SafeTransactions(u, loc.force) = {}
                 THEN Return("ensure", "return", None, NoErr, "noop")
                 ELSE IF ~builderConfigured
                   THEN Return("ensure", "throw", None, Err("other", None), "failed")
                   ELSE pc' = "e_execute" /\ UNCHANGED last
  /\ loc' = [loc EXCEPT !.executes = 0, !.approvalPoll = None, !.batch = {}]
  /\ UNCHANGED <<builderConfigured, op, phase, out, pre, deploys,
                 relayReturned, codeSeen>>
  /\ UNCHANGED <<batchVars, orderVars, cancelVars, keyVars, predictVars, raceVars>>

\* relayClient.execute(safeTransactions, ...)
ExecuteOutcomes == {"submitted", "throws"}

EnsureExecute(x) ==
  /\ pc = "e_execute"
  /\ IF x = "submitted"
       THEN pc' = "e_poll" /\ UNCHANGED last
       ELSE Return("ensure", "throw", None, Err("other", None), "failed")
  /\ loc' = [loc EXCEPT !.executes = loc.executes + 1,
                        !.batch = SafeTransactions(user, loc.force)]
  /\ UNCHANGED <<user, builderConfigured, op, phase, out, pre, deploys,
                 relayReturned, codeSeen>>
  /\ UNCHANGED <<batchVars, orderVars, cancelVars, keyVars, predictVars, raceVars>>

\* relayClient.pollUntilState for the approval transaction
ApprovalPolls == {"confirmed", "null", "throws"}

EnsurePoll(p) ==
  /\ pc = "e_poll"
  /\ IF p = "confirmed"
       THEN /\ user' = FlagsSet(user)
            /\ Return("ensure", "return", None, NoErr, "confirmed")
       ELSE /\ UNCHANGED user
            /\ Return("ensure", "throw", None, Err("other", None), "failed")
  /\ loc' = [loc EXCEPT !.approvalPoll = p]
  /\ UNCHANGED <<builderConfigured, op, phase, out, pre, deploys,
                 relayReturned, codeSeen>>
  /\ UNCHANGED <<batchVars, orderVars, cancelVars, keyVars, predictVars, raceVars>>

\* verifyApprovals: allowance(safe, ctfExchange), isApprovedForAll(safe,
\* ctfExchange), isApprovedForAll(safe, negRiskCtfExchange), then
\* prisma.user.update with the three values read
VerifyEnter ==
  /\ pc = "v_enter"
  /\ IF user.safeAddress = None
       THEN Return("verify", "throw", None, Err("other", None), "nosafe")
       ELSE pc' = "v_read" /\ UNCHANGED last
  /\ UNCHANGED <<user, builderConfigured, op, phase, loc, out, pre, deploys,
                 relayReturned, codeSeen>>
  /\ UNCHANGED <<batchVars, orderVars, cancelVars, keyVars, predictVars, raceVars>>

VerifyWritten(u, usdc, ctf, negRisk) ==
  [u EXCEPT !.usdcApproved = usdc, !.ctfApproved = ctf, !.negRiskApproved = negRisk]

VerifyRead(usdc, ctf, negRisk) ==
  /\ pc = "v_read"
  /\ user' = VerifyWritten(user, usdc, ctf, negRisk)
  /\ Return("verify", "return", usdc /\ ctf /\ negRisk, NoErr, "read")
  /\ UNCHANGED <<builderConfigured, op, phase, loc, out, pre, deploys,
                 relayReturned, codeSeen>>
  /\ UNCHANGED <<batchVars, orderVars, cancelVars, keyVars, predictVars, raceVars>>

\* a chain read throws: all-false is returned, nothing is written
VerifyThrows ==
  /\ pc = "v_read"
  /\ Return("verify", "return", FALSE, NoErr, "unread")
  /\ UNCHANGED <<user, builderConfigured, op, phase, loc, out, pre, deploys,
                 relayReturned, codeSeen>>
  /\ UNCHANGED <<batchVars, orderVars, cancelVars, keyVars, predictVars, raceVars>>

VerifySteps ==
  \/ VerifyEnter
  \/ \E usdc \in BOOLEAN, ctf \in BOOLEAN, negRisk \in BOOLEAN :
       VerifyRead(usdc, ctf, negRisk)
  \/ VerifyThrows

EnsureSteps ==
  \/ EnsureEnter
  \/ \E x \in ExecuteOutcomes : EnsureExecute(x)
  \/ \E p \in ApprovalPolls : EnsurePoll(p)

\* ------------------------------------------------------------------------
\* createApiCredentials / resetApiCredentials

\* what deriveApiKey / createApiKey answer: complete credentials with one of
\* these secrets, incomplete credentials, or a throw
Secrets == {"QQ==", "QR==", "QQ"}
CredentialAnswers == Secrets \cup {"incomplete", "throws"}

\* the characters of a secret
SecretChars(secret) ==
  CASE secret = "QQ==" -> <<"Q", "Q", "=", "=">>
    [] secret = "QR==" -> <<"Q", "R", "=", "=">>
    [] secret = "QQ" -> <<"Q", "Q">>

B64Alphabet ==
  <<"A", "B", "C", "D", "E", "F", "G", "H", "I", "J", "K", "L", "M",
     "N", "O", "P", "Q", "R", "S", "T", "U", "V", "W", "X", "Y", "Z",
     "a", "b", "c", "d", "e", "f", "g", "h", "i", "j", "k", "l", "m",
     "n", "o", "p", "q", "r", "s", "t", "u", "v", "w", "x", "y", "z",
     "0", "1", "2", "3", "4", "5", "6", "7", "8", "9", "+", "/">>

B64Index(c) == (CHOOSE n \in 1..64 : B64Alphabet[n] = c) - 1

IsB64Char(c) == \E n \in 1..64 : B64Alphabet[n] = c

\* Buffer.from(s, 'base64'): characters outside the alphabet are skipped,
\* decoding stops at the first '=', left-over bits are dropped
RECURSIVE Sextets(_)
Sextets(chars) ==
  IF chars = <<>> \/ Head(chars) = "=" THEN <<>>
  ELSE IF IsB64Char(Head(chars))
    THEN <<B64Index(Head(chars))>> \o Sextets(Tail(chars))
    ELSE Sextets(Tail(chars))

RECURSIVE SextetsToBytes(_)
SextetsToBytes(sx) ==
  IF Len(sx) >= 4
    THEN LET n == ((sx[1] * 64 + sx[2]) * 64 + sx[3]) * 64 + sx[4] IN
         <<n \div 65536, (n \div 256) % 256, n % 256>>
           \o SextetsToBytes(SubSeq(sx, 5, Len(sx)))
  ELSE IF Len(sx) = 3
    THEN LET n == (((sx[1] * 64 + sx[2]) * 64 + sx[3]) \div 4) IN
         <<n \div 256, n % 256>>
  ELSE IF Len(sx) = 2
    THEN <<(sx[1] * 64 + sx[2]) \div 16>>
  ELSE <<>>

Base64Decode(chars) == SextetsToBytes(Sextets(chars))

\* decoded.toString('base64'): canonical alphabet, zero fill bits, '=' padding
RECURSIVE Base64Encode(_)
Base64Encode(bytes) ==
  IF Len(bytes) >= 3
    THEN LET n == (bytes[1] * 256 + bytes[2]) * 256 + bytes[3] IN
         <<B64Alphabet[(n \div 262144) + 1], B64Alphabet[((n \div 4096) % 64) + 1],
           B64Alphabet[((n \div 64) % 64) + 1], B64Alphabet[(n % 64) + 1]>>
           \o Base64Encode(SubSeq(bytes, 4, Len(bytes)))
  ELSE IF Len(bytes) = 2
    THEN LET n == (bytes[1] * 256 + bytes[2]) * 4 IN
         <<B64Alphabet[(n \div 4096) + 1], B64Alphabet[((n \div 64) % 64) + 1],
           B64Alphabet[(n % 64) + 1], "=">>
  ELSE IF Len(bytes) = 1
    THEN LET n == bytes[1] * 16 IN
         <<B64Alphabet[(n \div 64) + 1], B64Alphabet[(n % 64) + 1], "=", "=">>
  ELSE <<>>

\* reencoded === credentials.secret
RoundTrips(secret) ==
  Base64Encode(Base64Decode(SecretChars(secret))) = SecretChars(secret)

\* Buffer.from(secret, 'base64') does not throw on malformed input and a
\* re-encoding mismatch is only logged: every complete secret passes
SecretPasses(secret) == secret \in Secrets

\* status written when credential creation fails
CreateFailed(u) == [u EXCEPT !.status = "SAFE_DEPLOYED"]

CreateStored(u, secret) == [u EXCEPT !.apiSecret = secret, !.status = "READY"]

CreateEnter ==
  /\ pc = "c_enter"
  /\ IF user.safeAddress = None
       THEN /\ Return("create", "throw", None, Err("other", None), "nosafe")
            /\ UNCHANGED user
       ELSE /\ user' = [user EXCEPT !.status = "SETTING_UP"]
            /\ pc' = "c_derive"
            /\ UNCHANGED last
  /\ loc' = [loc EXCEPT !.credCalls = <<>>]
  /\ UNCHANGED <<builderConfigured, op, phase, out, pre, deploys,
                 relayReturned, codeSeen>>
  /\ UNCHANGED <<batchVars, orderVars, cancelVars, keyVars, predictVars, raceVars>>

\* if (!credentials): deriveApiKey threw or came back incomplete
NoCredentialsAlways(a) == TRUE

NoCredentials(a) == a \notin Secrets

\* deriveApiKey first, createApiKey as the fallback
CreateCredentials(a) ==
  /\ pc \in {"c_derive", "c_issue"}
  /\ loc' = [loc EXCEPT !.credCalls =
                Append(loc.credCalls,
                       [call |-> IF pc = "c_derive" THEN "derive" ELSE "issue",
                        answer |-> a])]
  /\ IF pc = "c_derive" /\ NoCredentials(a)
       THEN pc' = "c_issue" /\ UNCHANGED <<user, last>>
       ELSE IF a \in Secrets
         THEN IF SecretPasses(a)
                THEN /\ user' = CreateStored(user, a)
                     /\ Return("create", "return", None, NoErr,
                               IF pc = "c_derive" THEN "derived" ELSE "issued")
                ELSE /\ user' = CreateFailed(user)
                     /\ Return("create", "throw", None, Err("other", None), "corrupt")
         ELSE /\ user' = CreateFailed(user)
              /\ Return("create", "throw", None, Err("other", None), "failed")
  /\ UNCHANGED <<builderConfigured, op, phase, out, pre, deploys,
                 relayReturned, codeSeen>>
  /\ UNCHANGED <<batchVars, orderVars, cancelVars, keyVars, predictVars, raceVars>>

\* resetApiCredentials: clear the stored credentials, then createApiCredentials
ResetClearedAll(u) ==
  [u EXCEPT !.apiSecret = None, !.status = "SAFE_DEPLOYED",
            !.usdcApproved = FALSE, !.ctfApproved = FALSE,
            !.negRiskApproved = FALSE]

ResetCleared(u) == [u EXCEPT !.apiSecret = None, !.status = "SAFE_DEPLOYED"]

ResetEnter ==
  /\ pc = "rs_enter"
  /\ IF user.safeAddress = None
       THEN /\ Return("reset", "throw", None, Err("other", None), "nosafe")
            /\ UNCHANGED <<user, phase, pre, deploys>>
       ELSE /\ user' = ResetCleared(user)
            /\ phase' = "create"
            /\ pc' = "c_enter" /\ pre' = user' /\ deploys' = 0
            /\ UNCHANGED last
  /\ loc' = [loc EXCEPT !.resetFrom = user]
  /\ UNCHANGED <<builderConfigured, op, out, relayReturned, codeSeen>>
  /\ UNCHANGED <<batchVars, orderVars, cancelVars, keyVars, predictVars, raceVars>>

CredentialSteps ==
  \/ CreateEnter
  \/ \E a \in CredentialAnswers : CreateCredentials(a)
  \/ ResetEnter

\* ------------------------------------------------------------------------
\* Top-level calls: the service methods as the routes and MCP tools call them

\* a top-level call returns to its caller
Finish(kind, val, ready) ==
  /\ op' = "idle" /\ pc' = "idle" /\ phase' = None
  /\ out' = [op |-> op, kind |-> kind, val |-> val, ready |-> ready]
  /\ loc' = NoLoc

StartDeploy ==
  /\ op = "idle"
  /\ op' = "deploy" /\ phase' = None /\ loc' = NoLoc
  /\ Call("deploy", "d_enter")
  /\ out' = NoOut
  /\ UNCHANGED <<user, builderConfigured, last, relayReturned, codeSeen>>
  /\ UNCHANGED <<batchVars, orderVars, cancelVars, keyVars, predictVars, raceVars>>

StartRecover(cand) ==
  /\ op = "idle"
  /\ op' = "recover" /\ phase' = None /\ loc' = [NoLoc EXCEPT !.cand = cand]
  /\ Call("recover", "r_enter")
  /\ out' = NoOut
  /\ UNCHANGED <<user, builderConfigured, last, relayReturned, codeSeen>>
  /\ UNCHANGED <<batchVars, orderVars, cancelVars, keyVars, predictVars, raceVars>>

StartEnsure(force) ==
  /\ op = "idle"
  /\ op' = "ensure" /\ phase' = None /\ loc' = [NoLoc EXCEPT !.force = force]
  /\ Call("ensure", "e_enter")
  /\ out' = NoOut
  /\ UNCHANGED <<user, builderConfigured, last, relayReturned, codeSeen>>
  /\ UNCHANGED <<batchVars, orderVars, cancelVars, keyVars, predictVars, raceVars>>

StartVerify ==
  /\ op = "idle"
  /\ op' = "verify" /\ phase' = None /\ loc' = NoLoc
  /\ Call("verify", "v_enter")
  /\ out' = NoOut
  /\ UNCHANGED <<user, builderConfigured, last, relayReturned, codeSeen>>
  /\ UNCHANGED <<batchVars, orderVars, cancelVars, keyVars, predictVars, raceVars>>

StartCreate ==
  /\ op = "idle"
  /\ op' = "create" /\ phase' = None /\ loc' = NoLoc
  /\ Call("create", "c_enter")
  /\ out' = NoOut
  /\ UNCHANGED <<user, builderConfigured, last, relayReturned, codeSeen>>
  /\ UNCHANGED <<batchVars, orderVars, cancelVars, keyVars, predictVars, raceVars>>

StartReset ==
  /\ op = "idle"
  /\ op' = "reset" /\ phase' = None /\ loc' = NoLoc
  /\ Call("reset", "rs_enter")
  /\ out' = NoOut
  /\ UNCHANGED <<user, builderConfigured, last, relayReturned, codeSeen>>
  /\ UNCHANGED <<batchVars, orderVars, cancelVars, keyVars, predictVars, raceVars>>

\* fullSetup starts with deploySafeWallet
StartFullSetup ==
  /\ op = "idle"
  /\ op' = "fullSetup" /\ phase' = "deploy" /\ loc' = NoLoc
  /\ Call("deploy", "d_enter")
  /\ out' = NoOut
  /\ UNCHANGED <<user, builderConfigured, last, relayReturned, codeSeen>>
  /\ UNCHANGED <<batchVars, orderVars, cancelVars, keyVars, predictVars, raceVars>>

StartSync(continueSetup) ==
  /\ op = "idle"
  /\ op' = "sync" /\ phase' = None
  /\ loc' = [NoLoc EXCEPT !.continueSetup = continueSetup]
  /\ Call("sync", "s_enter")
  /\ out' = NoOut
  /\ UNCHANGED <<user, builderConfigured, last, relayReturned, codeSeen>>
  /\ UNCHANGED <<batchVars, orderVars, cancelVars, keyVars, predictVars, raceVars>>

\* deploy, recover, ensure, create called on their own; reset after its create
ResumeSimple ==
  /\ pc = "returned"
  /\ op \in {"deploy", "recover", "ensure", "verify", "create", "reset"}
  /\ Finish(last.kind, last.val, FALSE)
  /\ last' = NoLast
  /\ UNCHANGED <<user, builderConfigured, pre, deploys, relayReturned, codeSeen>>
  /\ UNCHANGED <<batchVars, orderVars, cancelVars, keyVars, predictVars, raceVars>>

\* the step fullSetup awaits after the one that returned
FullSetupNextSkips(ph) == IF ph = "deploy" THEN "creds" ELSE "done"

FullSetupNext(ph) ==
  IF ph = "deploy" THEN "approvals" ELSE IF ph = "approvals" THEN "creds" ELSE "done"

\* fullSetup: deploySafeWallet, setTokenApprovals, createApiCredentials; an
\* exception of any step propagates
ResumeFullSetup ==
  /\ pc = "returned"
  /\ op = "fullSetup"
  /\ IF last.kind = "throw"
       THEN Finish("throw", None, FALSE) /\ UNCHANGED <<pre, deploys>>
       ELSE IF FullSetupNext(phase) = "approvals"
         THEN /\ phase' = "approvals"
              /\ loc' = [loc EXCEPT !.fsAddr = last.val, !.force = FALSE]
              /\ Call("ensure", "e_enter")
              /\ UNCHANGED <<op, out>>
         ELSE IF FullSetupNext(phase) = "creds"
           THEN /\ phase' = "creds"
                /\ Call("create", "c_enter")
                /\ UNCHANGED <<op, out, loc>>
           ELSE Finish("return", loc.fsAddr, TRUE) /\ UNCHANGED <<pre, deploys>>
  /\ last' = NoLast
  /\ UNCHANGED <<user, builderConfigured, relayReturned, codeSeen>>
  /\ UNCHANGED <<batchVars, orderVars, cancelVars, keyVars, predictVars, raceVars>>

\* ------------------------------------------------------------------------
\* syncWalletState(userId, continueSetup)

SyncEnter ==
  /\ pc = "s_enter"
  /\ loc' = [loc EXCEPT !.sSafeAddress = user.safeAddress,
                        !.sSafeDeployed = user.safeDeployed,
                        !.sCreds = (user.apiSecret # None),
                        !.sApprovals = (user.usdcApproved /\ user.ctfApproved
                                          /\ user.negRiskApproved)]
  /\ IF user.safeAddress = None \/ ~user.safeDeployed
       THEN /\ phase' = "recover1"
            /\ Call("recover", "r_enter")
       ELSE /\ pc' = "s_check"
            /\ UNCHANGED <<phase, pre, deploys>>
  /\ UNCHANGED <<user, builderConfigured, op, last, out, relayReturned, codeSeen>>
  /\ UNCHANGED <<batchVars, orderVars, cancelVars, keyVars, predictVars, raceVars>>

\* the returns of the methods syncWalletState calls
ResumeSync ==
  /\ pc = "returned"
  /\ op = "sync"
  /\ IF phase \in {"recover1", "recover2"}
       THEN IF last.kind = "throw"
              THEN Finish("throw", None, FALSE) /\ UNCHANGED <<pre, deploys>>
              ELSE IF last.val # None
                THEN /\ loc' = [loc EXCEPT !.sSafeAddress = last.val,
                                           !.sSafeDeployed = TRUE]
                     /\ pc' = "s_check"
                     /\ UNCHANGED <<op, phase, out, pre, deploys>>
                ELSE IF phase = "recover1"
                  THEN /\ phase' = "deploy"
                       /\ Call("deploy", "d_enter")
                       /\ UNCHANGED <<op, out, loc>>
                  ELSE /\ pc' = "s_check"
                       /\ UNCHANGED <<op, phase, out, pre, deploys, loc>>
       ELSE IF phase = "deploy"
         THEN IF last.kind = "return"
                THEN /\ loc' = [loc EXCEPT !.sSafeAddress = last.val,
                                           !.sSafeDeployed = TRUE]
                     /\ pc' = "s_check"
                     /\ UNCHANGED <<op, phase, out, pre, deploys>>
                ELSE IF last.err.kind = "alreadyDeployed"
                  THEN /\ phase' = "recover2"
                       /\ Call("recover", "r_enter")
                       /\ UNCHANGED <<op, out, loc>>
                  ELSE /\ pc' = "s_check"
                       /\ UNCHANGED <<op, phase, out, pre, deploys, loc>>
         ELSE IF phase = "approvals"
           THEN /\ loc' = [loc EXCEPT !.sApprovals =
                              (last.kind = "return" \/ loc.sApprovals)]
                /\ pc' = "s_step3"
                /\ UNCHANGED <<op, phase, out, pre, deploys>>
           ELSE /\ loc' = [loc EXCEPT !.sCreds =
                              (last.kind = "return" \/ loc.sCreds)]
                /\ pc' = "s_final"
                /\ UNCHANGED <<op, phase, out, pre, deploys>>
  /\ last' = NoLast
  /\ UNCHANGED <<user, builderConfigured, relayReturned, codeSeen>>
  /\ UNCHANGED <<batchVars, orderVars, cancelVars, keyVars, predictVars, raceVars>>

\* Step 2: approvals, after the Safe is known
SyncCheck ==
  /\ pc = "s_check"
  /\ IF loc.sSafeAddress = None
       THEN Finish("return", "FAILED", FALSE) /\ UNCHANGED <<pre, deploys>>
       ELSE IF loc.continueSetup /\ ~loc.sApprovals
         THEN /\ phase' = "approvals"
              /\ loc' = [loc EXCEPT !.force = FALSE]
              /\ Call("ensure", "e_enter")
              /\ UNCHANGED <<op, out>>
         ELSE /\ pc' = "s_step3"
              /\ UNCHANGED <<op, phase, out, loc, pre, deploys>>
  /\ UNCHANGED <<user, builderConfigured, last, relayReturned, codeSeen>>
  /\ UNCHANGED <<batchVars, orderVars, cancelVars, keyVars, predictVars, raceVars>>

\* Step 3: credentials
SyncStep3 ==
  /\ pc = "s_step3"
  /\ IF loc.continueSetup /\ ~loc.sCreds
       THEN /\ phase' = "creds"
            /\ Call("create", "c_enter")
       ELSE /\ pc' = "s_final"
            /\ UNCHANGED <<phase, pre, deploys>>
  /\ UNCHANGED <<user, builderConfigured, op, loc, last, out, relayReturned, codeSeen>>
  /\ UNCHANGED <<batchVars, orderVars, cancelVars, keyVars, predictVars, raceVars>>

\* the result object: the final status and isReady
SyncFinal ==
  /\ pc = "s_final"
  /\ Finish("return", user.status,
            loc.sSafeDeployed /\ loc.sCreds /\ loc.sApprovals)
  /\ UNCHANGED <<user, builderConfigured, last, pre, deploys, relayReturned, codeSeen>>
  /\ UNCHANGED <<batchVars, orderVars, cancelVars, keyVars, predictVars, raceVars>>

SyncSteps ==
  \/ SyncEnter
  \/ ResumeSync
  \/ SyncCheck
  \/ SyncStep3
  \/ SyncFinal

NextWallet ==
  \/ StartDeploy
  \/ \E cand \in Addr \cup {None} : StartRecover(cand)
  \/ \E force \in BOOLEAN : StartEnsure(force)
  \/ StartVerify
  \/ StartCreate
  \/ StartReset
  \/ StartFullSetup
  \/ \E c \in BOOLEAN : StartSync(c)
  \/ ResumeSimple
  \/ ResumeFullSetup
  \/ DeploySteps
  \/ RecoverSteps
  \/ EnsureSteps
  \/ VerifySteps
  \/ CredentialSteps
  \/ SyncSteps

\* ------------------------------------------------------------------------
\* Atomic batch: POST /execute-atomic and execute_atomic_orders

\* what createOrder + postOrder can do for one order
OrderOutcomes == {"accepted", "rejected", "noId", "createThrows", "postThrows"}
CancelOutcomes == {"ok", "throws"}

InitBatchVars ==
  /\ entry = None /\ bpc = "idle" /\ orders = 0 /\ i = 0 /\ k = 0
  /\ hasFailure = FALSE
  /\ submittedOrders = <<>> /\ orderResults = <<>> /\ dbOrders = <<>>
  /\ posted = {} /\ outcomes = <<>>
  /\ remoteLive = {} /\ cancelCalls = {}
  /\ response = None

\* request validation and user lookup, before the order loop
BatchAdmissible(n, valid) ==
  /\ n # 0
  /\ ~(n > MaxAtomicOrders)
  /\ user.safeAddress # None
  /\ valid
  /\ user.apiSecret # None

BatchStart(e, n, valid) ==
  /\ bpc = "idle" /\ opc = "idle"
  /\ BatchAdmissible(n, valid)
  /\ entry' = e /\ orders' = n /\ i' = 1 /\ bpc' = "loop"
  /\ UNCHANGED <<k, hasFailure, submittedOrders, orderResults, dbOrders,
                 posted, outcomes, remoteLive, cancelCalls, response>>
  /\ UNCHANGED <<walletVars, orderVars, cancelVars, keyVars, predictVars, raceVars>>

BatchReject(e, n, valid) ==
  /\ bpc = "idle" /\ opc = "idle"
  /\ ~BatchAdmissible(n, valid)
  /\ entry' = e /\ orders' = n /\ bpc' = "done" /\ response' = "error"
  /\ UNCHANGED <<i, k, hasFailure, submittedOrders, orderResults, dbOrders,
                 posted, outcomes, remoteLive, cancelCalls>>
  /\ UNCHANGED <<walletVars, orderVars, cancelVars, keyVars, predictVars, raceVars>>

\* the loop continues after a failed order unless the handler breaks
BreaksOnFailure(e) == e = "mcp"

\* one iteration of the order loop
BatchOrder(o) ==
  /\ bpc = "loop"
  /\ i <= orders
  /\ outcomes' = Append(outcomes, o)
  /\ posted' = IF o = "createThrows" THEN posted ELSE posted \cup {i}
  /\ IF o = "accepted"
       THEN /\ dbOrders' = Append(dbOrders,
                 [index |-> i, status |-> "LIVE", clobOrderId |-> i])
            /\ submittedOrders' = Append(submittedOrders, i)
            /\ orderResults' = Append(orderResults, [index |-> i, success |-> TRUE])
            /\ remoteLive' = remoteLive \cup {i}
            /\ UNCHANGED hasFailure
            /\ i' = i + 1
            /\ bpc' = IF i + 1 <= orders THEN "loop" ELSE "after"
       ELSE /\ dbOrders' = Append(dbOrders,
                 [index |-> i, status |-> "PENDING", clobOrderId |-> 0])
            /\ hasFailure' = TRUE
            /\ orderResults' = Append(orderResults, [index |-> i, success |-> FALSE])
            /\ UNCHANGED <<submittedOrders, remoteLive>>
            /\ IF BreaksOnFailure(entry)
                 THEN i' = i /\ bpc' = "after"
                 ELSE i' = i + 1 /\ bpc' = IF i + 1 <= orders THEN "loop" ELSE "after"
  /\ UNCHANGED <<entry, orders, k, cancelCalls, response>>
  /\ UNCHANGED <<walletVars, orderVars, cancelVars, keyVars, predictVars, raceVars>>

\* if (hasFailure && submittedOrders.length > 0)
NeedsRollback == hasFailure /\ Len(submittedOrders) > 0

BatchDecide ==
  /\ bpc = "after"
  /\ IF NeedsRollback
       THEN bpc' = "rollback" /\ k' = 1 /\ UNCHANGED response
       ELSE bpc' = "done" /\ response' = "success" /\ UNCHANGED k
  /\ UNCHANGED <<entry, orders, i, hasFailure, submittedOrders, orderResults,
                 dbOrders, posted, outcomes, remoteLive, cancelCalls>>
  /\ UNCHANGED <<walletVars, orderVars, cancelVars, keyVars, predictVars, raceVars>>

\* one iteration of the cancel loop; a throwing cancel is logged and skipped
BatchCancel(c) ==
  /\ bpc = "rollback"
  /\ k <= Len(submittedOrders)
  /\ cancelCalls' = cancelCalls \cup {submittedOrders[k]}
  /\ remoteLive' = IF c = "ok" THEN remoteLive \ {submittedOrders[k]} ELSE remoteLive
  /\ k' = k + 1
  /\ UNCHANGED <<entry, bpc, orders, i, hasFailure, submittedOrders,
                 orderResults, dbOrders, posted, outcomes, response>>
  /\ UNCHANGED <<walletVars, orderVars, cancelVars, keyVars, predictVars, raceVars>>

\* prisma.order.updateMany({ where: { clobOrderId: { in: ids } }, status CANCELLED })
MarkCancelledLiveOnly(db, ids) ==
  [j \in 1..Len(db) |->
     IF db[j].clobOrderId \in ids /\ db[j].clobOrderId \notin remoteLive
       THEN [db[j] EXCEPT !.status = "CANCELLED"] ELSE db[j]]

MarkCancelled(db, ids) ==
  [j \in 1..Len(db) |->
     IF db[j].clobOrderId \in ids
       THEN [db[j] EXCEPT !.status = "CANCELLED"] ELSE db[j]]

SeqRange(s) == {s[j] : j \in 1..Len(s)}

BatchRollbackDone ==
  /\ bpc = "rollback"
  /\ k > Len(submittedOrders)
  /\ dbOrders' = MarkCancelled(dbOrders, SeqRange(submittedOrders))
  /\ response' = "failure"
  /\ bpc' = "done"
  /\ UNCHANGED <<entry, orders, i, k, hasFailure, submittedOrders, orderResults,
                 posted, outcomes, remoteLive, cancelCalls>>
  /\ UNCHANGED <<walletVars, orderVars, cancelVars, keyVars, predictVars, raceVars>>

NextBatch ==
  \/ \E e \in {"rest", "mcp"}, n \in 0..MaxOrders, valid \in BOOLEAN :
       BatchStart(e, n, valid)
  \/ \E e \in {"rest", "mcp"}, n \in 0..MaxOrders, valid \in BOOLEAN :
       BatchReject(e, n, valid)
  \/ \E o \in OrderOutcomes : BatchOrder(o)
  \/ BatchDecide
  \/ \E c \in CancelOutcomes : BatchCancel(c)
  \/ BatchRollbackDone

\* the accounts a batch is run for: fresh, deployed only, fully provisioned
\* ------------------------------------------------------------------------
\* OrderService.createOrder: the single-order submit

MaxSubmits == 2

\* prices in thousandths: 0.01 and 0.99
MinPrice == 10
MaxPrice == 990

Markets == {"m1", "m2"}
Prices == {9, 10, 990, 991}
Sizes == {-1, 0, 1}
OrderTypes == {"GTC", "GTD"}
Expirations == {0, 1}
RemoteIds == {"a1"}

ParamsSet ==
  [conditionId : Markets, price : Prices, size : Sizes,
   orderType : OrderTypes, expiration : Expirations]

NoParams ==
  [conditionId |-> None, price |-> 0, size |-> 0, orderType |-> None,
   expiration |-> 0]

\* the three validations at the top of createOrder
ValidParamsAnyPrice(p) ==
  /\ ~(p.size <= 0)
  /\ ~(p.orderType = "GTD" /\ p.expiration = 0)

ValidParams(p) ==
  /\ ~(p.price < MinPrice \/ p.price > MaxPrice)
  /\ ~(p.size <= 0)
  /\ ~(p.orderType = "GTD" /\ p.expiration = 0)

\* user.status === 'READY' and user.safeAddress set
UserReady(u) == u.status = "READY" /\ u.safeAddress # None

\* phrases the error classification looks for in the message of a failed
\* attempt: 'Invalid character'/'base64', 'INVALID_SIGNATURE',
\* 'MIN_TICK_SIZE'/'tick', 'balance'/'allowance'/'INSUFFICIENT'/'not enough'
Keywords == {"base64", "INVALID_SIGNATURE", "tick", "balance"}

\* what one attemptOrder(negRiskFlag) can come back with: a response without
\* error (with or without an order id), or an error whose message holds some
\* of the phrases
Replies ==
  [ok : {TRUE}, id : RemoteIds \cup {None}, words : {{}}]
    \cup [ok : {FALSE}, id : {None}, words : SUBSET Keywords]

\* the catch of the first attempt, in the order of its tests
ErrorClassBalance(words) == "balance"

ErrorClass(words) ==
  IF "base64" \in words THEN "signing"
  ELSE IF "INVALID_SIGNATURE" \in words THEN "signature"
  ELSE IF "tick" \in words THEN "tick-size"
  ELSE IF "balance" \in words THEN "balance"
  ELSE "other"

\* clobResponse.orderID || clobResponse.orderId || clobResponse.id || null
ExtractId(reply) == reply.id

\* if (!clobOrderId) ... FAILED
HasOrderIdAlways(id) == TRUE

HasOrderId(id) == id # None

\* marketNegRiskCache.set(conditionId, value)
CacheKeep(cache, m, value) == cache

CacheSet(cache, m, value) ==
  [x \in DOMAIN cache \cup {m} |-> IF x = m THEN value ELSE cache[x]]

RowSubmitting == [status |-> "SUBMITTING", clobOrderId |-> None]
RowFailed == [status |-> "FAILED", clobOrderId |-> None]
RowLive(id) == [status |-> "LIVE", clobOrderId |-> id]

SetLast(rows, r) == [rows EXCEPT ![Len(rows)] = r]

EmptyCache == [x \in {} |-> FALSE]

\* isNegRisk and, as bookkeeping of one call: the attemptOrder calls made
\* (routing and reply), the market lookups fetched, the number of order rows
\* at entry, the cache as it was when the first attempt was made
NoOLoc ==
  [isNegRisk |-> FALSE, attempts |-> <<>>, fetches |-> 0, rows0 |-> 0,
   cacheAtAttempt |-> EmptyCache]

NoResult == [kind |-> None, status |-> None, clobOrderId |-> None]
Thrown == [kind |-> "throw", status |-> None, clobOrderId |-> None]

InitOrderVars ==
  /\ opc = "idle" /\ params = NoParams /\ orderRows = <<>>
  /\ marketNegRiskCache = EmptyCache
  /\ oloc = NoOLoc /\ oresult = NoResult

OrderFailKeepsRow ==
  /\ UNCHANGED orderRows
  /\ oresult' = Thrown
  /\ opc' = "done"

\* the outer catch: the row becomes FAILED and the error is rethrown
OrderFail ==
  /\ orderRows' = SetLast(orderRows, RowFailed)
  /\ oresult' = Thrown
  /\ opc' = "done"

\* after an attempt came back without error: LIVE only with an order id
OrderSettle(reply) ==
  IF HasOrderId(ExtractId(reply))
    THEN /\ orderRows' = SetLast(orderRows, RowLive(ExtractId(reply)))
         /\ oresult' = [kind |-> "return", status |-> "LIVE",
                        clobOrderId |-> ExtractId(reply)]
         /\ opc' = "done"
    ELSE OrderFail

\* createOrder up to the routing decision: validation, user lookup, order
\* row, credentials, cache lookup of isNegRiskMarket
SubmitStart(p) ==
  /\ opc = "idle" /\ bpc = "idle"
  /\ Len(orderRows) < MaxSubmits
  /\ params' = p
  /\ IF ~ValidParams(p) \/ ~UserReady(user)
       THEN /\ oresult' = Thrown /\ opc' = "done"
            /\ oloc' = [NoOLoc EXCEPT !.rows0 = Len(orderRows),
                                       !.cacheAtAttempt = marketNegRiskCache]
            /\ UNCHANGED orderRows
       ELSE IF user.apiSecret = None
         THEN \* getApiCredentials throws inside the try block
              /\ orderRows' = Append(orderRows, RowFailed)
              /\ oresult' = Thrown /\ opc' = "done"
              /\ oloc' = [NoOLoc EXCEPT !.rows0 = Len(orderRows),
                                         !.cacheAtAttempt = marketNegRiskCache]
         ELSE /\ orderRows' = Append(orderRows, RowSubmitting)
              /\ oresult' = NoResult
              /\ IF p.conditionId \in DOMAIN marketNegRiskCache
                   THEN /\ opc' = "attempt1"
                        /\ oloc' = [NoOLoc EXCEPT
                             !.rows0 = Len(orderRows),
                             !.isNegRisk = marketNegRiskCache[p.conditionId],
                             !.cacheAtAttempt = marketNegRiskCache]
                   ELSE /\ opc' = "detect"
                        /\ oloc' = [NoOLoc EXCEPT !.rows0 = Len(orderRows)]
  /\ UNCHANGED marketNegRiskCache
  /\ UNCHANGED <<walletVars, batchVars, cancelVars, keyVars, predictVars, raceVars>>

\* isNegRiskMarket on a cache miss: the lookups answer true or false, or fail
\* and the default false is taken; the answer is cached
SubmitDetect(isNegRisk) ==
  /\ opc = "detect"
  /\ marketNegRiskCache' = CacheSet(marketNegRiskCache, params.conditionId, isNegRisk)
  /\ oloc' = [oloc EXCEPT !.isNegRisk = isNegRisk,
                          !.fetches = oloc.fetches + 1,
                          !.cacheAtAttempt = marketNegRiskCache']
  /\ opc' = "attempt1"
  /\ UNCHANGED <<params, orderRows, oresult>>
  /\ UNCHANGED <<walletVars, batchVars, cancelVars, keyVars, predictVars, raceVars>>

\* attemptOrder(isNegRisk) and the catch of the first attempt
SubmitAttempt1(reply) ==
  /\ opc = "attempt1"
  /\ oloc' = [oloc EXCEPT !.attempts =
                Append(oloc.attempts, [negRisk |-> oloc.isNegRisk, reply |-> reply])]
  /\ IF reply.ok
       THEN OrderSettle(reply)
       ELSE IF ErrorClass(reply.words) = "balance"
         THEN opc' = "attempt2" /\ UNCHANGED <<orderRows, oresult>>
         ELSE OrderFail
  /\ UNCHANGED <<params, marketNegRiskCache>>
  /\ UNCHANGED <<walletVars, batchVars, cancelVars, keyVars, predictVars, raceVars>>

\* attemptOrder(!isNegRisk); the cache is corrected when it comes back without
\* error
SubmitAttempt2(reply) ==
  /\ opc = "attempt2"
  /\ oloc' = [oloc EXCEPT !.attempts =
                Append(oloc.attempts, [negRisk |-> ~oloc.isNegRisk, reply |-> reply])]
  /\ IF reply.ok
       THEN /\ marketNegRiskCache' =
                 CacheSet(marketNegRiskCache, params.conditionId, ~oloc.isNegRisk)
            /\ OrderSettle(reply)
       ELSE /\ UNCHANGED marketNegRiskCache
            /\ OrderFail
  /\ UNCHANGED params
  /\ UNCHANGED <<walletVars, batchVars, cancelVars, keyVars, predictVars, raceVars>>

\* the caller has its answer
SubmitDone ==
  /\ opc = "done"
  /\ opc' = "idle" /\ params' = NoParams /\ oloc' = NoOLoc /\ oresult' = NoResult
  /\ UNCHANGED <<orderRows, marketNegRiskCache>>
  /\ UNCHANGED <<walletVars, batchVars, cancelVars, keyVars, predictVars, raceVars>>

SubmitSteps ==
  \/ \E p \in ParamsSet : SubmitStart(p)
  \/ \E isNegRisk \in BOOLEAN : SubmitDetect(isNegRisk)
  \/ \E reply \in Replies : SubmitAttempt1(reply)
  \/ \E reply \in Replies : SubmitAttempt2(reply)
  \/ SubmitDone

NextOrder ==
  \/ SubmitSteps
  \/ NextBatch

\* ------------------------------------------------------------------------
\* OrderService.cancelOrder and cancelAllOrders, over the orders of two users

MaxTable == 2
MaxSize == 2

UserIds == {"u1", "u2"}

\* local id and remote id of the order in row j
LocalId(j) == <<"local", j>>
ClobId(j) == <<"clob", j>>
OrderIds == {LocalId(j) : j \in 1..MaxTable} \cup {ClobId(j) : j \in 1..MaxTable}

\* rows as createOrder and the batch leave them: LIVE and CANCELLED rows carry
\* the remote id, FAILED rows carry none
TableRows(j) ==
  [userId : UserIds, status : {"LIVE", "CANCELLED"}, clobOrderId : {ClobId(j)},
   size : {MaxSize}, filledSize : {0}]
    \cup [userId : UserIds, status : {"FAILED"}, clobOrderId : {<<>>},
          size : {MaxSize}, filledSize : {0}]

Tables == {t \in [1..MaxTable -> UNION {TableRows(j) : j \in 1..MaxTable}] :
             \A j \in 1..MaxTable : t[j] \in TableRows(j)}

\* findUnique({ id: orderId }), then findUnique({ clobOrderId: orderId });
\* 0 when neither finds a row
FindOrder(table, orderId) ==
  IF \E j \in 1..Len(table) : LocalId(j) = orderId
    THEN CHOOSE j \in 1..Len(table) : LocalId(j) = orderId
  ELSE IF \E j \in 1..Len(table) : table[j].clobOrderId = orderId
    THEN CHOOSE j \in 1..Len(table) : table[j].clobOrderId = orderId
  ELSE 0

\* order.userId !== userId
OwnedByAnyone(row, userId) == TRUE

OwnedBy(row, userId) == row.userId = userId

\* clobClient.getOrder: an order with status and size_matched, or nothing
\* (null, or a throw)
RemoteStatuses == {"LIVE", "MATCHED", "FILLED", "CANCELED"}
RemoteReads ==
  [found : {TRUE}, status : RemoteStatuses, sizeMatched : 0..MaxSize]
    \cup {[found |-> FALSE, status |-> "UNKNOWN", sizeMatched |-> 0]}

\* status === 'MATCHED' || status === 'FILLED' || sizeMatched >= order.size
FullyMatchedNever(read, size) == FALSE

FullyMatched(read, size) ==
  read.found /\ (read.status = "MATCHED" \/ read.status = "FILLED"
                   \/ read.sizeMatched >= size)

\* the status in the object cancelOrder returns after the cancel attempt
ReturnedStatus(finalStatus) == "CANCELLED"

NoRead == [found |-> FALSE, status |-> "UNKNOWN", sizeMatched |-> 0]

NoCLoc ==
  [caller |-> None, orderId |-> <<>>, order |-> 0, reads |-> 0, cancels |-> 0,
   first |-> NoRead, after |-> NoRead]

NoCResult == [kind |-> None, status |-> None]

InitCancelVars ==
  /\ orderTable = <<>> /\ cpc = "idle" /\ cloc = NoCLoc /\ cresult = NoCResult

\* lookup and the four checks before the try block
CancelStart(userId, orderId) ==
  /\ cpc = "idle"
  /\ LET j == FindOrder(orderTable, orderId) IN
     /\ cloc' = [NoCLoc EXCEPT !.caller = userId, !.orderId = orderId, !.order = j]
     /\ IF j = 0
          THEN cpc' = "done" /\ cresult' = [kind |-> "throw", status |-> None]
          ELSE IF \/ ~OwnedBy(orderTable[j], userId)
                  \/ orderTable[j].clobOrderId = <<>>
                  \/ orderTable[j].status # "LIVE"
            THEN cpc' = "done" /\ cresult' = [kind |-> "throw", status |-> None]
            ELSE cpc' = "read1" /\ cresult' = NoCResult
  /\ UNCHANGED orderTable
  /\ UNCHANGED <<walletVars, batchVars, orderVars, keyVars, predictVars, raceVars>>

\* the read before the cancel: an order already filled is recorded FILLED
CancelRead1(read) ==
  /\ cpc = "read1"
  /\ cloc' = [cloc EXCEPT !.reads = cloc.reads + 1, !.first = read]
  /\ IF FullyMatched(read, orderTable[cloc.order].size)
       THEN /\ orderTable' = [orderTable EXCEPT ![cloc.order] =
                 [@ EXCEPT !.status = "FILLED", !.filledSize = read.sizeMatched]]
            /\ cresult' = [kind |-> "return", status |-> "FILLED"]
            /\ cpc' = "done"
       ELSE /\ cpc' = "cancel"
            /\ UNCHANGED <<orderTable, cresult>>
  /\ UNCHANGED <<walletVars, batchVars, orderVars, keyVars, predictVars, raceVars>>

\* clobClient.cancelOrder; a throw is logged and ignored
CancelCall(c) ==
  /\ cpc = "cancel"
  /\ cloc' = [cloc EXCEPT !.cancels = cloc.cancels + 1]
  /\ cpc' = "read2"
  /\ UNCHANGED <<orderTable, cresult>>
  /\ UNCHANGED <<walletVars, batchVars, orderVars, keyVars, predictVars, raceVars>>

\* the read after the cancel attempt, the status update and the answer
CancelRead2(read) ==
  /\ cpc = "read2"
  /\ cloc' = [cloc EXCEPT !.reads = cloc.reads + 1, !.after = read]
  /\ LET size == orderTable[cloc.order].size
         finalStatus == IF FullyMatched(read, size) THEN "FILLED" ELSE "CANCELLED"
         filled == IF read.found /\ ~FullyMatched(read, size) /\ read.sizeMatched > 0
                     THEN read.sizeMatched
                     ELSE orderTable[cloc.order].filledSize
     IN /\ orderTable' = [orderTable EXCEPT ![cloc.order] =
               [@ EXCEPT !.status = finalStatus, !.filledSize = filled]]
        /\ cresult' = [kind |-> "return", status |-> ReturnedStatus(finalStatus)]
  /\ cpc' = "done"
  /\ UNCHANGED <<walletVars, batchVars, orderVars, keyVars, predictVars, raceVars>>

CancelDone ==
  /\ cpc = "done"
  /\ cpc' = "idle" /\ cloc' = NoCLoc /\ cresult' = NoCResult
  /\ UNCHANGED orderTable
  /\ UNCHANGED <<walletVars, batchVars, orderVars, keyVars, predictVars, raceVars>>

\* updateMany({ where: { userId, status: LIVE } }) -> CANCELLED
CancelledOfAnyone(table, userId) ==
  [j \in 1..Len(table) |->
     IF table[j].status = "LIVE"
       THEN [table[j] EXCEPT !.status = "CANCELLED"] ELSE table[j]]

CancelledOf(table, userId) ==
  [j \in 1..Len(table) |->
     IF table[j].userId = userId /\ table[j].status = "LIVE"
       THEN [table[j] EXCEPT !.status = "CANCELLED"] ELSE table[j]]

\* cancelAllOrders: clobClient.cancelAll(), then the updateMany; a throw of
\* the remote call leaves the rows alone
CancelAll(userId, c) ==
  /\ cpc = "idle"
  /\ cloc' = [NoCLoc EXCEPT !.caller = userId]
  /\ IF c = "ok"
       THEN /\ orderTable' = CancelledOf(orderTable, userId)
            /\ cresult' = [kind |-> "return", status |-> "CANCELLED"]
       ELSE /\ UNCHANGED orderTable
            /\ cresult' = [kind |-> "throw", status |-> None]
  /\ cpc' = "done"
  /\ UNCHANGED <<walletVars, batchVars, orderVars, keyVars, predictVars, raceVars>>

\* rollback of an atomic batch of userId: updateMany({ where: { clobOrderId:
\* { in: submittedOrders } } }); submittedOrders holds remote ids the batch
\* wrote onto rows it created for userId
Rollback(userId, ids) ==
  /\ cpc = "idle"
  /\ ids # {}
  /\ \A id \in ids : \E j \in 1..Len(orderTable) :
       /\ orderTable[j].clobOrderId = id
       /\ orderTable[j].userId = userId
       /\ orderTable[j].status = "LIVE"
  /\ cloc' = [NoCLoc EXCEPT !.caller = userId]
  /\ orderTable' = MarkCancelled(orderTable, ids)
  /\ cresult' = [kind |-> "return", status |-> "CANCELLED"]
  /\ cpc' = "done"
  /\ UNCHANGED <<walletVars, batchVars, orderVars, keyVars, predictVars, raceVars>>

\* syncOrderStatus(orderId): what getOrder answers; originalSize 0 stands for
\* an answer without original_size / originalSize
SyncReads ==
  [status : {"LIVE", "FILLED", "CANCELLED"}, sizeMatched : 0..MaxSize,
   originalSize : {0, MaxSize}]

\* newStatus of syncOrderStatus
SyncedStatus(row, read) ==
  IF read.status = "FILLED" \/ read.sizeMatched = read.originalSize THEN "FILLED"
  ELSE IF read.status = "CANCELLED" THEN "CANCELLED"
  ELSE IF read.sizeMatched > 0 THEN "MATCHED"
  ELSE row.status

\* syncOrderStatus: the row is found by its local id and has a remote id;
\* the update is written whatever the row's status is
SyncOrderStatus(j, read) ==
  /\ cpc = "idle"
  /\ j \in 1..Len(orderTable)
  /\ orderTable[j].clobOrderId # <<>>
  /\ orderTable' = [orderTable EXCEPT ![j] =
        [@ EXCEPT !.status = SyncedStatus(orderTable[j], read),
                  !.filledSize = IF read.sizeMatched # 0 THEN read.sizeMatched
                                 ELSE orderTable[j].filledSize]]
  /\ UNCHANGED <<cpc, cloc, cresult>>
  /\ UNCHANGED <<walletVars, batchVars, orderVars, keyVars, predictVars, raceVars>>

\* syncAllUserOrders: findMany where userId, clobOrderId not null and status
\* in LIVE, PENDING, SUBMITTING, MATCHED
SyncSelected(row, userId) ==
  /\ row.userId = userId
  /\ row.clobOrderId # <<>>
  /\ row.status \in {"LIVE", "PENDING", "SUBMITTING", "MATCHED"}

\* newStatus of one iteration of syncAllUserOrders
SyncedAllStatus(row, read) ==
  IF FullyMatched(read, row.size) THEN "FILLED"
  ELSE IF read.status \in {"CANCELED", "CANCELLED"}
    THEN IF read.sizeMatched > 0 THEN "MATCHED" ELSE "CANCELLED"
  ELSE IF read.sizeMatched > 0 THEN "MATCHED"
  ELSE IF read.status \in {"LIVE", "OPEN"} THEN "LIVE"
  ELSE row.status

\* syncAllUserOrders(userId): the findMany; nothing is read when no row is
\* selected
SyncAllStart(userId) ==
  /\ cpc = "idle"
  /\ IF \E j \in 1..Len(orderTable) : SyncSelected(orderTable[j], userId)
       THEN /\ cpc' = "syncall"
            /\ cloc' = [NoCLoc EXCEPT !.caller = userId, !.order = 1]
       ELSE UNCHANGED <<cpc, cloc>>
  /\ UNCHANGED <<orderTable, cresult>>
  /\ UNCHANGED <<walletVars, batchVars, orderVars, keyVars, predictVars, raceVars>>

\* one row of the loop: a selected row gets one getOrder, whose empty answer
\* or throw leaves the row alone; the call returns after the last row
SyncAllStep(read) ==
  /\ cpc = "syncall"
  /\ LET j == cloc.order
         row == orderTable[j]
     IN /\ IF SyncSelected(row, cloc.caller)
             THEN orderTable' =
                    IF read.found
                      THEN [orderTable EXCEPT ![j] =
                              [@ EXCEPT !.status = SyncedAllStatus(row, read),
                                        !.filledSize = read.sizeMatched]]
                      ELSE orderTable
             ELSE read = NoRead /\ UNCHANGED orderTable
        /\ IF j < Len(orderTable)
             THEN cloc' = [cloc EXCEPT !.order = j + 1] /\ UNCHANGED cpc
             ELSE cloc' = NoCLoc /\ cpc' = "idle"
  /\ UNCHANGED cresult
  /\ UNCHANGED <<walletVars, batchVars, orderVars, keyVars, predictVars, raceVars>>

NextCancel ==
  \/ \E userId \in UserIds, orderId \in OrderIds : CancelStart(userId, orderId)
  \/ \E read \in RemoteReads : CancelRead1(read)
  \/ \E c \in {"ok", "throws"} : CancelCall(c)
  \/ \E read \in RemoteReads : CancelRead2(read)
  \/ CancelDone
  \/ \E userId \in UserIds, c \in {"ok", "throws"} : CancelAll(userId, c)
  \/ \E userId \in UserIds, ids \in SUBSET {ClobId(j) : j \in 1..MaxTable} :
       Rollback(userId, ids)
  \/ \E j \in 1..MaxTable, read \in SyncReads : SyncOrderStatus(j, read)
  \/ \E userId \in UserIds : SyncAllStart(userId)
  \/ \E read \in RemoteReads : SyncAllStep(read)

\* ------------------------------------------------------------------------
\* API key issuance: the public MCP tool request_api_key and
\* POST /api/bot/credentials

MaxKeys == 3            \* userApiKey rows explored

ExternalIds == {"e1", "e2", "e3"}

\* the x-api-key header of a request: 0 is no header, n names the n-th key
\* issued, a number beyond the rows is a key validateApiKey does not find
Headers == 0..(MaxKeys + 1)

\* handleRequest: context.isAuthenticated / context.userId from the header
Context(header, keys) ==
  IF header \in 1..Len(keys)
    THEN [isAuthenticated |-> TRUE, userId |-> keys[header].userId]
    ELSE [isAuthenticated |-> FALSE, userId |-> None]

\* ApiKeyService.createApiKey: a new row for userId; existing and context
\* note the request that asked for it
CreateApiKey(keys, userId, existing, context, source) ==
  Append(keys, [userId |-> userId, existing |-> existing,
                context |-> context, source |-> source])

InitKeyVars == users = {} /\ userApiKeys = <<>>

\* executeTool 'request_api_key': find the user by externalId, create it when
\* absent, then create a key; context is not consulted
RequestApiKey(externalId, header) ==
  /\ Len(userApiKeys) < MaxKeys
  /\ users' = users \cup {externalId}
  /\ userApiKeys' = CreateApiKey(userApiKeys, externalId, externalId \in users,
                                 Context(header, userApiKeys), "request_api_key")
  /\ UNCHANGED <<walletVars, batchVars, orderVars, cancelVars, predictVars, raceVars>>

\* router.post('/credentials'): mounted without authentication; a key is
\* issued when the user exists
BotCredentials(externalId) ==
  /\ Len(userApiKeys) < MaxKeys
  /\ externalId \in users
  /\ userApiKeys' = CreateApiKey(userApiKeys, externalId, TRUE,
                                 Context(0, userApiKeys), "credentials")
  /\ UNCHANGED users
  /\ UNCHANGED <<walletVars, batchVars, orderVars, cancelVars, predictVars, raceVars>>

\* POST /credentials for an unknown externalId answers mcpApiKey: null
BotCredentialsNoUser(externalId) ==
  /\ externalId \notin users
  /\ UNCHANGED vars

NextKeys ==
  \/ \E externalId \in ExternalIds, header \in Headers :
       RequestApiKey(externalId, header)
  \/ \E externalId \in ExternalIds : BotCredentials(externalId)
  \/ \E externalId \in ExternalIds : BotCredentialsNoUser(externalId)

\* ------------------------------------------------------------------------
\* getPredictedSafeAddress(ownerAddress)

MaxCalls == 3           \* calls of getPredictedSafeAddress explored

\* owner addresses, and a string that is not an address
OwnerAddresses == {"0xA1", "0xB2", "0xC3", "0xD4"}
Owners == OwnerAddresses \cup {"0xZZ"}

SAFE_FACTORY == "0xaacFeEa03eb1561C4e67d661e40682Bd20E3541b"
SAFE_INIT_CODE_HASH ==
  "0x2bce2127ff07fb632d16c8347c4ebf501f4841168bed00d9e6ef715ddb6fcecf"

\* ethers.utils.keccak256, as a symbolic digest: the digest of x is the term
\* keccak256(x), so two digests are equal exactly when their inputs are
Keccak256(x) == <<"keccak256", x>>

\* defaultAbiCoder.encode(['address'], [owner]): the address left-padded to
\* 32 bytes; throws on a string that is not an address
AbiEncodeAddress(owner) ==
  IF owner \in OwnerAddresses THEN <<"pad32", owner>> ELSE <<"throws">>

SaltConstant(owner) == Keccak256(<<"pad32", "0x00">>)

Salt(owner) == Keccak256(AbiEncodeAddress(owner))

\* getCreate2Address(from, salt, initCodeHash): the low 20 bytes of
\* keccak256(0xff ++ from ++ salt ++ initCodeHash)
GetCreate2Address(from, salt, initCodeHash) ==
  <<"low20", Keccak256(<<"0xff", from, salt, initCodeHash>>)>>

\* the catch block turns a throw into null
GetPredictedSafeAddress(ownerAddress) ==
  IF AbiEncodeAddress(ownerAddress) = <<"throws">>
    THEN <<>>
    ELSE GetCreate2Address(SAFE_FACTORY, Salt(ownerAddress), SAFE_INIT_CODE_HASH)

InitPredictVars == predictCalls = <<>>

Predict(ownerAddress) ==
  /\ Len(predictCalls) < MaxCalls
  /\ predictCalls' = Append(predictCalls,
                            [owner |-> ownerAddress,
                             address |-> GetPredictedSafeAddress(ownerAddress)])
  /\ UNCHANGED <<walletVars, batchVars, orderVars, cancelVars, keyVars, raceVars>>

NextPredict == \E ownerAddress \in Owners : Predict(ownerAddress)

\* ------------------------------------------------------------------------
\* Two deploySafeWallet calls on the same account, interleaved at their
\* database accesses. Between its status write and its last write a call
\* only talks to the relayer and the chain; what the other call can observe
\* of it is the row read, the SAFE_DEPLOYING write, and then either the
\* saveSafeDeployment write or the revert of the catch block.

Calls == {"c1", "c2"}

InitRaceVars ==
  /\ rpc = [c \in Calls |-> "idle"]
  /\ rsnap = [c \in Calls |-> FreshUser]
  /\ rres = [c \in Calls |-> None]

RaceFrame ==
  UNCHANGED <<builderConfigured, op, phase, pc, loc, last, out, pre, deploys,
              relayReturned, codeSeen, batchVars, orderVars, cancelVars,
              keyVars, predictVars>>

\* prisma.user.findUnique of a first or a later call
RaceRead(c) ==
  /\ rpc[c] \in {"idle", "done"}
  /\ rsnap' = [rsnap EXCEPT ![c] = user]
  /\ rpc' = [rpc EXCEPT ![c] = "read"]
  /\ rres' = [rres EXCEPT ![c] = None]
  /\ UNCHANGED user
  /\ RaceFrame

\* the check-before-deploy guard on the row that was read, then the
\* SAFE_DEPLOYING write
RaceGuard(c) ==
  /\ rpc[c] = "read"
  /\ IF DeployGuard(rsnap[c])
       THEN /\ rpc' = [rpc EXCEPT ![c] = "done"]
            /\ rres' = [rres EXCEPT ![c] = "return"]
            /\ UNCHANGED user
       ELSE /\ user' = [user EXCEPT !.status = "SAFE_DEPLOYING"]
            /\ rpc' = [rpc EXCEPT ![c] = "deploying"]
            /\ UNCHANGED rres
  /\ UNCHANGED rsnap
  /\ RaceFrame

\* a return path of the try block or of the recovery: saveSafeDeployment
RaceSave(c, a) ==
  /\ rpc[c] = "deploying"
  /\ user' = Saved(user, a)
  /\ rpc' = [rpc EXCEPT ![c] = "done"]
  /\ rres' = [rres EXCEPT ![c] = "return"]
  /\ UNCHANGED rsnap
  /\ RaceFrame

\* the end of the catch block: status CREATED, rethrow
RaceFail(c) ==
  /\ rpc[c] = "deploying"
  /\ user' = RevertDeploy(user)
  /\ rpc' = [rpc EXCEPT ![c] = "done"]
  /\ rres' = [rres EXCEPT ![c] = "throw"]
  /\ UNCHANGED rsnap
  /\ RaceFrame

NextRace ==
  \/ \E c \in Calls : RaceRead(c)
  \/ \E c \in Calls : RaceGuard(c)
  \/ \E c \in Calls, a \in Addr : RaceSave(c, a)
  \/ \E c \in Calls : RaceFail(c)

DeployedUser ==
  [FreshUser EXCEPT !.status = "SAFE_DEPLOYED", !.safeAddress = Predicted,
                    !.safeDeployed = TRUE]
ReadyUser ==
  [status |-> "READY", safeAddress |-> Predicted, safeDeployed |-> TRUE,
   usdcApproved |-> TRUE, ctfApproved |-> TRUE, negRiskApproved |-> TRUE,
   apiSecret |-> "QQ=="]

\* READY without approvals: deploySafeWallet, then createApiCredentials
UnapprovedReadyUser ==
  [ReadyUser EXCEPT !.usdcApproved = FALSE, !.ctfApproved = FALSE,
                    !.negRiskApproved = FALSE]

\* credentials stored, status back at SAFE_DEPLOYED: a later
\* createApiCredentials failed
RevertedUser == [ReadyUser EXCEPT !.status = "SAFE_DEPLOYED"]

InitBatch ==
  /\ user \in {FreshUser, DeployedUser, ReadyUser, UnapprovedReadyUser,
               RevertedUser}
  /\ builderConfigured = TRUE
  /\ op = "idle" /\ phase = None /\ pc = "idle"
  /\ loc = NoLoc /\ last = NoLast /\ out = NoOut
  /\ pre = user
  /\ deploys = 0
  /\ relayReturned = {}
  /\ codeSeen = IF user.safeAddress = None THEN {} ELSE {user.safeAddress}
  /\ InitBatchVars
  /\ InitOrderVars
  /\ InitCancelVars
  /\ InitKeyVars /\ InitPredictVars /\ InitRaceVars

SpecBatch == InitBatch /\ [][NextBatch]_vars

SpecOrder == InitBatch /\ [][NextOrder]_vars

InitWallet ==
  InitWalletVars /\ InitBatchVars /\ InitOrderVars /\ InitCancelVars /\ InitKeyVars /\ InitPredictVars /\ InitRaceVars

InitCancel ==
  /\ InitWalletVars /\ builderConfigured /\ InitBatchVars /\ InitOrderVars
  /\ orderTable \in Tables
  /\ cpc = "idle" /\ cloc = NoCLoc /\ cresult = NoCResult
  /\ InitKeyVars /\ InitPredictVars /\ InitRaceVars

SpecCancel == InitCancel /\ [][NextCancel]_vars

InitKeys ==
  /\ InitWalletVars /\ builderConfigured /\ InitBatchVars /\ InitOrderVars
  /\ InitCancelVars /\ InitKeyVars /\ InitPredictVars /\ InitRaceVars

SpecKeys == InitKeys /\ [][NextKeys]_vars

SpecPredict == InitKeys /\ [][NextPredict]_vars

SpecRace == InitKeys /\ [][NextRace]_vars

SpecWallet == InitWallet /\ [][NextWallet]_vars

\* ------------------------------------------------------------------------
\* Claims about the atomic batch

Accepted == {j \in 1..Len(outcomes) : outcomes[j] = "accepted"}
Failed == {j \in 1..Len(outcomes) : outcomes[j] # "accepted"}
FirstFailure == CHOOSE j \in Failed : \A h \in Failed : j <= h

\* C1: the batch reports success only if every order of the batch was
\* accepted by the remote order book; a failure of the first order, with
\* nothing accepted before it, is reported as failure too.
C1_SuccessOnlyIfAllAccepted ==
  (bpc = "done" /\ response = "success") => Accepted = 1..orders

\* C2: once an order of the batch fails, no order positioned after it is
\* persisted locally or posted to the remote order book.
C2_HaltsOnFirstFailure ==
  Failed # {} =>
    /\ \A j \in 1..Len(dbOrders) : dbOrders[j].index <= FirstFailure
    /\ \A j \in posted : j <= FirstFailure

\* C3: after a failed batch has returned, every persisted batch member has
\* local status CANCELLED.
C3_FailedBatchAllCancelled ==
  (bpc = "done" /\ response = "failure") =>
    \A j \in 1..Len(dbOrders) : dbOrders[j].status = "CANCELLED"

\* C4: when a batch fails after at least one order was accepted, a remote
\* cancel is attempted for every accepted order and each of them is CANCELLED
\* in the local record, also when its remote cancel threw.
C4_RollbackCancelsAccepted ==
  (bpc = "done" /\ hasFailure /\ Accepted # {}) =>
    \A j \in 1..Len(dbOrders) :
      dbOrders[j].index \in Accepted =>
        /\ dbOrders[j].clobOrderId \in cancelCalls
        /\ dbOrders[j].status = "CANCELLED"

\* a failed batch whose remote cancel threw: the order is CANCELLED locally
\* and still live remotely
C4_Witness ==
  /\ bpc = "done" /\ hasFailure
  /\ \E j \in 1..Len(dbOrders) :
       /\ dbOrders[j].index \in Accepted
       /\ dbOrders[j].status = "CANCELLED"
       /\ dbOrders[j].clobOrderId \in remoteLive

\* ------------------------------------------------------------------------
\* Claims about the account state machine

RevertEdges == {<<"SAFE_DEPLOYING", "CREATED">>, <<"SETTING_UP", "SAFE_DEPLOYED">>}

\* C5: over any sequence of deploy, recover, ensure, create, reset, fullSetup
\* and syncState calls, the persisted status never moves backward in
\* CREATED < DEPLOYING < DEPLOYED < SETTING_UP < READY, except along
\* DEPLOYING -> CREATED and SETTING_UP -> DEPLOYED.
C5_StatusMonotonic ==
  [][Rank(user'.status) >= Rank(user.status)
       \/ <<user.status, user'.status>> \in RevertEdges]_vars

\* C6: whenever deploy, create, reset, fullSetup or syncState has returned or
\* thrown, the persisted status is neither DEPLOYING nor SETTING_UP.
C6_NeverLeftMidTransition ==
  (op = "idle" /\ out.op \in {"deploy", "create", "reset", "fullSetup", "sync"})
    => user.status \notin {"SAFE_DEPLOYING", "SETTING_UP"}

\* a fullSetup that threw in its credential step, after the status had been
\* SETTING_UP
C6_Witness ==
  /\ op = "idle" /\ out.op = "fullSetup" /\ out.kind = "throw"
  /\ user.status = "SAFE_DEPLOYED"
  /\ user.usdcApproved

C8_RecoverSubmitsNothing ==
  (pc = "returned" /\ last.sub = "recover") => deploys = 0

\* C9: deploy on an account whose deployed flag and address are set returns
\* that address, submits nothing to the relayer and leaves the record as it
\* was.
C9_DeployIdempotent ==
  (pc = "returned" /\ last.sub = "deploy"
     /\ pre.safeDeployed /\ pre.safeAddress # None)
    => /\ last.kind = "return"
       /\ last.val = pre.safeAddress
       /\ deploys = 0
       /\ user = pre

\* deploy called on a fully provisioned account
C9_Witness ==
  /\ pc = "returned" /\ last.sub = "deploy" /\ last.kind = "return"
  /\ pre.status = "READY" /\ pre.safeDeployed
  /\ last.val = user.safeAddress

\* C10: if after a deployment submission neither the relay-reported address
\* (read twice) nor the predicted address shows bytecode, deploy throws and
\* the account ends CREATED, not deployed, with no deployed address.
C10_UnresolvedReverts ==
  (pc = "returned" /\ last.sub = "deploy" /\ loc.unresolved)
    => /\ last.kind = "throw"
       /\ user.status = "CREATED"
       /\ ~user.safeDeployed
       /\ user.safeAddress = None

\* the relayer had reported an address other than the predicted one and all
\* three reads came back empty
C10_Witness ==
  /\ pc = "returned" /\ last.sub = "deploy" /\ last.kind = "throw"
  /\ loc.unresolved /\ loc.respTx
  /\ loc.known \notin {None, Predicted}
  /\ user.status = "CREATED"

\* C11: when the relayer answers a deployment submission with an "already
\* deployed" error naming address Y and Y has bytecode on-chain (no read of Y
\* in the call came back without it), deploy returns Y and the account ends
\* with deployed address Y, deployed flag true and status DEPLOYED.
C11_AlreadyDeployedIsSuccess ==
  (pc = "returned" /\ last.sub = "deploy"
     /\ loc.named # None /\ loc.named \notin loc.noCode)
    => /\ last.kind = "return"
       /\ last.val = loc.named
       /\ user.safeAddress = loc.named
       /\ user.safeDeployed
       /\ user.status = "SAFE_DEPLOYED"

\* C12: for a fresh account, when the relayer returns only a transaction id
\* and polling ends in a success state carrying address X, deploy returns X
\* and the account ends with deployed address X, deployed flag true and
\* status DEPLOYED.
C12_PolledAddressPersisted ==
  (pc = "returned" /\ last.sub = "deploy"
     /\ pre.status = "CREATED" /\ ~pre.safeDeployed
     /\ loc.known = None /\ loc.polled # None)
    => /\ last.kind = "return"
       /\ last.val = loc.polled
       /\ user.safeAddress = loc.polled
       /\ user.safeDeployed
       /\ user.status = "SAFE_DEPLOYED"

\* the polled address differs from the predicted one and the first submission
\* was answered with the transaction id
C12_Witness ==
  /\ pc = "returned" /\ last.sub = "deploy" /\ last.kind = "return"
  /\ pre.status = "CREATED" /\ loc.known = None /\ loc.attempt = 1
  /\ loc.polled = "X" /\ user.safeAddress = "X"
  /\ deploys = 1

\* C13: an approval flag of an account becomes true only in the step in
\* which a relayed approval transaction was polled to a confirmed terminal
\* state, and that step sets the three flags to true together.
C13_FlagsOnlyAfterConfirmedRelay ==
  [][ (\/ ~user.usdcApproved /\ user'.usdcApproved
       \/ ~user.ctfApproved /\ user'.ctfApproved
       \/ ~user.negRiskApproved /\ user'.negRiskApproved)
      => /\ pc = "e_poll" /\ last'.sub = "ensure" /\ last'.path = "confirmed"
         /\ user'.usdcApproved /\ user'.ctfApproved /\ user'.negRiskApproved ]_vars

\* C14: ensure(force=false) on an account whose three approval flags are all
\* true makes zero relay calls and leaves the account record unchanged.
C14_EnsureNoopWhenApproved ==
  (pc = "returned" /\ last.sub = "ensure" /\ ~loc.force
     /\ pre.usdcApproved /\ pre.ctfApproved /\ pre.negRiskApproved)
    => loc.executes = 0 /\ user = pre

C14_Witness ==
  /\ pc = "returned" /\ last.sub = "ensure" /\ ~loc.force
  /\ pre.usdcApproved /\ pre.ctfApproved /\ pre.negRiskApproved
  /\ last.kind = "return" /\ last.path = "noop"
  /\ pre.status = "READY"

\* C20: create never persists a secret that does not survive a base64
\* decode / re-encode round trip: whatever secret the account stores
\* round-trips, so a malformed one aborted the operation, stored nothing and
\* did not make the account READY.
C20_StoredSecretRoundTrips ==
  user.apiSecret # None => RoundTrips(user.apiSecret)

\* ------------------------------------------------------------------------
\* Single-order submit

\* the order row of the createOrder call in flight
CurrentRow == orderRows[Len(orderRows)]

\* C15: every order with local status LIVE has a non-null remote order
\* identifier; a placement response that carries no identifier, even without
\* an error, leaves the order FAILED (single submit) or counts as that
\* order's failure (batch).
C15_LiveHasRemoteId ==
  /\ \A j \in 1..Len(orderRows) :
       orderRows[j].status = "LIVE" => orderRows[j].clobOrderId # None
  /\ \A j \in 1..Len(dbOrders) :
       dbOrders[j].status = "LIVE" => dbOrders[j].clobOrderId # 0
  /\ (opc = "done" /\ oloc.attempts # <<>>
        /\ oloc.attempts[Len(oloc.attempts)].reply.ok
        /\ oloc.attempts[Len(oloc.attempts)].reply.id = None)
       => CurrentRow = RowFailed /\ oresult.kind = "throw"
  /\ \A j \in 1..Len(outcomes) :
       outcomes[j] = "noId"
         => /\ ~orderResults[j].success
            /\ hasFailure
            /\ dbOrders[j].status # "LIVE"
            /\ j \notin SeqRange(submittedOrders)

\* a submit answered without error and without id, after one that went LIVE
C15_Witness ==
  /\ opc = "done" /\ Len(oloc.attempts) = 1
  /\ oloc.attempts[1].reply.ok /\ oloc.attempts[1].reply.id = None
  /\ Len(orderRows) = 2
  /\ orderRows[1] = RowLive("a1") /\ orderRows[2] = RowFailed

\* C16: whatever the cache held for the market, when the first attempt under
\* routing A is rejected with a balance/allowance-class error and the attempt
\* under the opposite routing B is accepted with a remote id, submit returns
\* LIVE with that id and the cache then maps the market to B.
C16_RetryCorrectsCache ==
  (opc = "done" /\ Len(oloc.attempts) = 2
     /\ ~oloc.attempts[1].reply.ok /\ "balance" \in oloc.attempts[1].reply.words
     /\ oloc.attempts[2].reply.ok /\ oloc.attempts[2].reply.id # None)
    => /\ oresult = [kind |-> "return", status |-> "LIVE",
                     clobOrderId |-> oloc.attempts[2].reply.id]
       /\ CurrentRow = RowLive(oloc.attempts[2].reply.id)
       /\ oloc.attempts[2].negRisk = ~oloc.attempts[1].negRisk
       /\ params.conditionId \in DOMAIN marketNegRiskCache
       /\ marketNegRiskCache[params.conditionId] = oloc.attempts[2].negRisk
       /\ \A m \in DOMAIN oloc.cacheAtAttempt \ {params.conditionId} :
            /\ m \in DOMAIN marketNegRiskCache
            /\ marketNegRiskCache[m] = oloc.cacheAtAttempt[m]

\* the routing A came from the cache, filled by an earlier call
C16_Witness ==
  /\ opc = "done" /\ Len(oloc.attempts) = 2
  /\ oloc.attempts[2].reply.ok /\ oloc.attempts[2].reply.id = "a1"
  /\ oloc.fetches = 0
  /\ params.conditionId = "m1"
  /\ "m1" \in DOMAIN oloc.cacheAtAttempt
  /\ oloc.cacheAtAttempt["m1"] = TRUE
  /\ marketNegRiskCache["m1"] = FALSE
  /\ oresult.status = "LIVE"

\* C17: one submit call makes at most two placement attempts; the second
\* happens only after a balance/allowance-class rejection of the first and
\* goes under the opposite routing; a non-balance rejection ends the call as
\* FAILED after exactly one attempt, the routing cache left as it was when
\* the attempt was made.
C17_AtMostOneRetry ==
  /\ Len(oloc.attempts) <= 2
  /\ Len(oloc.attempts) = 2
       => /\ ~oloc.attempts[1].reply.ok
          /\ "balance" \in oloc.attempts[1].reply.words
          /\ oloc.attempts[2].negRisk = ~oloc.attempts[1].negRisk
  /\ (opc = "done" /\ oloc.attempts # <<>>
        /\ ~oloc.attempts[1].reply.ok
        /\ "balance" \notin oloc.attempts[1].reply.words)
       => /\ Len(oloc.attempts) = 1
          /\ oresult.kind = "throw"
          /\ CurrentRow = RowFailed
          /\ marketNegRiskCache = oloc.cacheAtAttempt

C17_Witness ==
  /\ opc = "done" /\ Len(oloc.attempts) = 1
  /\ oloc.attempts[1].reply.words = {"tick"}
  /\ oresult.kind = "throw"
  /\ CurrentRow = RowFailed
  /\ marketNegRiskCache = oloc.cacheAtAttempt

\* C18: submit rejects an order whose price is outside 0.01..0.99, whose
\* size is not positive, or which is GTD without an expiration, before any
\* remote call is made and before any order record is created.
C18_InvalidRejectedFirst ==
  (opc = "done"
     /\ \/ params.price < MinPrice
        \/ params.price > MaxPrice
        \/ params.size <= 0
        \/ params.orderType = "GTD" /\ params.expiration = 0)
    => /\ oresult.kind = "throw"
       /\ oloc.attempts = <<>>
       /\ oloc.fetches = 0
       /\ Len(orderRows) = oloc.rows0
       /\ marketNegRiskCache = oloc.cacheAtAttempt

\* price 0.991 from an account that may trade
C18_Witness ==
  /\ opc = "done" /\ user = ReadyUser
  /\ params.price = 991 /\ params.size = 1 /\ params.orderType = "GTC"
  /\ oresult.kind = "throw" /\ orderRows = <<>>

FullyProvisioned(u) ==
  /\ u.safeDeployed /\ u.safeAddress # None
  /\ u.usdcApproved /\ u.ctfApproved /\ u.negRiskApproved
  /\ u.apiSecret # None
  /\ u.status = "READY"

\* C19: no order, single or batch member, is submitted to the remote order
\* book for an account that is not fully provisioned: not deployed, without
\* the three approval flags, without trading credentials, or with a status
\* other than READY.
C19_OnlyProvisionedAccountsTrade ==
  (oloc.attempts # <<>> \/ posted # {}) => FullyProvisioned(user)

\* ------------------------------------------------------------------------
\* Credentials, cancel, setup and sync

\* C21: create requires a deployed address and always calls derive before
\* issue: the issue call is made only if derive threw or returned incomplete
\* credentials, and a derive failure alone never makes create fail.
C21_DeriveBeforeIssue ==
  /\ Len(loc.credCalls) <= 2
  /\ loc.credCalls # <<>> => loc.credCalls[1].call = "derive"
  /\ Len(loc.credCalls) = 2
       => /\ loc.credCalls[2].call = "issue"
          /\ loc.credCalls[1].answer \notin Secrets
  /\ (pc = "returned" /\ last.sub = "create")
       => /\ pre.safeAddress = None
               => last.kind = "throw" /\ loc.credCalls = <<>> /\ user = pre
          /\ (Len(loc.credCalls) = 2 /\ loc.credCalls[2].answer \in Secrets)
               => last.kind = "return" /\ user.status = "READY"
          /\ last.kind = "throw" /\ pre.safeAddress # None
               => /\ Len(loc.credCalls) = 2
                  /\ loc.credCalls[2].answer \notin Secrets

\* derive threw, issue minted the credentials
C21_Witness ==
  /\ pc = "returned" /\ last.sub = "create" /\ last.kind = "return"
  /\ Len(loc.credCalls) = 2
  /\ loc.credCalls[1].answer = "throws"
  /\ loc.credCalls[2].answer = "QQ=="
  /\ user.apiSecret = "QQ==" /\ user.status = "READY"

\* C22: reset is idempotent and repeatable: a reset on a deployed account
\* whose remote credential calls succeed ends with credentials present and
\* status READY and touches nothing else, so on an account that a reset
\* already left READY it ends in the same state again.
C22_ResetIdempotent ==
  (pc = "returned" /\ op = "reset" /\ last.sub = "create"
     /\ last.kind = "return")
    => /\ user.status = "READY"
       /\ user.apiSecret \in Secrets
       /\ user = [loc.resetFrom EXCEPT !.status = "READY",
                                       !.apiSecret = user.apiSecret]
       /\ (loc.resetFrom.status = "READY" /\ loc.resetFrom.apiSecret # None)
            => user = [loc.resetFrom EXCEPT !.apiSecret = user.apiSecret]

\* a reset of an account that already is READY with approvals and credentials
C22_Witness ==
  /\ pc = "returned" /\ op = "reset" /\ last.sub = "create"
  /\ last.kind = "return"
  /\ loc.resetFrom.status = "READY" /\ loc.resetFrom.apiSecret = "QQ=="
  /\ loc.resetFrom.usdcApproved
  /\ user = loc.resetFrom

\* C23: the status cancel reports to its caller equals the status it
\* persisted for the order: FILLED when the re-read after the cancel attempt
\* shows the order fully matched, otherwise CANCELLED, with the filled size
\* recorded when partially matched.
C23_ReportedEqualsPersisted ==
  (cpc = "done" /\ cresult.kind = "return" /\ cloc.order # 0)
    => /\ cresult.status = orderTable[cloc.order].status
       /\ cloc.cancels > 0
            => /\ orderTable[cloc.order].status =
                    IF cloc.after.found
                       /\ (cloc.after.status \in {"MATCHED", "FILLED"}
                             \/ cloc.after.sizeMatched >= orderTable[cloc.order].size)
                      THEN "FILLED" ELSE "CANCELLED"
               /\ (orderTable[cloc.order].status = "CANCELLED"
                     /\ cloc.after.found /\ cloc.after.sizeMatched > 0)
                    => orderTable[cloc.order].filledSize = cloc.after.sizeMatched

\* C24: cancel, given the local or the remote identifier of a LIVE order,
\* first re-reads the remote order; if that read shows the order fully
\* matched, the order is recorded FILLED and no remote cancel call is issued.
C24_FilledShortCircuits ==
  /\ cloc.cancels > 0 => cloc.reads >= 1
  /\ cloc.cancels <= 1
  /\ (cpc \in {"cancel", "read2", "done"} /\ cloc.reads >= 1
        /\ cloc.first.found
        /\ (cloc.first.status \in {"MATCHED", "FILLED"}
              \/ cloc.first.sizeMatched >= orderTable[cloc.order].size))
       => /\ cpc = "done"
          /\ cloc.cancels = 0
          /\ orderTable[cloc.order].status = "FILLED"
          /\ cresult = [kind |-> "return", status |-> "FILLED"]

\* found through the remote identifier, the first read says MATCHED
C24_Witness ==
  /\ cpc = "done" /\ cloc.orderId = ClobId(2) /\ cloc.order = 2
  /\ cloc.reads = 1 /\ cloc.first.status = "MATCHED" /\ cloc.cancels = 0
  /\ orderTable[2].status = "FILLED"
  /\ cresult.status = "FILLED"

C25_FullSetupInOrder ==
  /\ [](op = "fullSetup" =>
          /\ phase \in {"deploy", "approvals", "creds"}
          /\ loc.executes > 0
               => /\ phase \in {"approvals", "creds"}
                  /\ user.safeAddress # None /\ user.safeDeployed
          /\ loc.credCalls # <<>>
               => /\ phase = "creds"
                  /\ user.usdcApproved /\ user.ctfApproved /\ user.negRiskApproved)
  /\ [][ op = "fullSetup" =>
           /\ (op' = "fullSetup" /\ phase' # phase)
                => <<phase, phase'>> \in {<<"deploy", "approvals">>,
                                          <<"approvals", "creds">>}
                   /\ pc = "returned" /\ last.kind = "return"
           /\ (pc = "returned" /\ last.kind = "throw")
                => /\ op' = "idle" /\ out'.kind = "throw"
                   /\ user' = user ]_vars

\* the approval step threw after the deployment succeeded: fullSetup has
\* thrown, and no credential call was made
C25_Witness ==
  /\ op = "idle" /\ out.op = "fullSetup" /\ out.kind = "throw"
  /\ user.safeDeployed /\ user.safeAddress # None
  /\ ~user.usdcApproved
  /\ user.apiSecret = None

\* C26: for an existing account, syncState returns a result object and does
\* not throw, whatever failure the recovery step, the deployment, the approval
\* step or the credential step produces.
C26_SyncNeverThrows ==
  (op = "idle" /\ out.op = "sync") => out.kind = "return"

\* C27: a returning user (an externalId that already has an account) cannot
\* obtain a new API key without authentication: no unauthenticated request
\* issues an API key bound to an existing account.
C27_ReturningUserNeedsAuth ==
  \A n \in 1..Len(userApiKeys) :
    userApiKeys[n].existing
      => /\ userApiKeys[n].context.isAuthenticated
         /\ userApiKeys[n].context.userId = userApiKeys[n].userId

\* C30: when polling of the approval transaction is exhausted without a
\* terminal state (a null result), ensure does not conclude failure before
\* an independent on-chain read of the approvals: the step that receives
\* the null result is not the step that throws.
C30_NullPollIsNotFailure ==
  [][ (pc = "e_poll" /\ loc'.approvalPoll = "null")
        => ~(pc' = "returned" /\ last'.kind = "throw") ]_vars

C31_FailureRestoresStatus ==
  (pc = "returned" /\ last.kind = "throw")
    => /\ op \in {"deploy", "create"} => user.status = pre.status
       /\ op = "reset" => user.status = loc.resetFrom.status

\* C32: every terminal failure of deploy, ensure and create appends an audit
\* entry for the account: no such call ends in failure without an audit
\* entry recording it.
C32_FailuresAudited ==
  (pc = "returned" /\ last.kind = "throw"
     /\ last.sub \in {"deploy", "ensure", "create"})
    => AuditEntry(last.sub, last.kind, last.path) # None

\* C33: one deploy call submits at most 3 deployment requests to the relay;
\* it never submits a fourth deployment request.
C33_AtMostThreeDeployRequests ==
  (op = "deploy" /\ pc # "idle") => deploys <= maxRetries

C35_RaceKeepsRecordConsistent ==
  (\A c \in Calls : rpc[c] = "done")
    => (user.safeDeployed => user.status \notin {"CREATED", "SAFE_DEPLOYING"})

\* C36: once an order is in a terminal state (FILLED, CANCELLED or FAILED),
\* no operation (cancel, cancelAll, syncOrderStatus, syncAllUserOrders, batch
\* rollback) changes its status.
C36_TerminalStatusIsFinal ==
  [][ \A j \in 1..Len(orderTable) :
        orderTable[j].status \in {"FILLED", "CANCELLED", "FAILED"}
          => orderTable'[j].status = orderTable[j].status ]_vars

\* C37: in every reachable state, status READY implies the account has a
\* deployed address with deployed flag true, stored trading credentials, and
\* all three approval flags true.
C37_ReadyMeansProvisioned ==
  user.status = "READY"
    => /\ user.safeAddress # None /\ user.safeDeployed
       /\ user.apiSecret # None
       /\ user.usdcApproved /\ user.ctfApproved /\ user.negRiskApproved

\* C38: whenever syncState reports the wallet as ready to trade, the
\* persisted status is READY (and repeated syncState calls bring the account
\* to READY once the remote services succeed).
C38_SyncReadyMeansStatusReady ==
  (op = "idle" /\ out.op = "sync" /\ out.kind = "return" /\ out.ready)
    => user.status = "READY"

\* C39: when submit has returned or thrown for an order it persisted, that
\* order's row is LIVE (returned) or FAILED (thrown), never PENDING or
\* SUBMITTING.
C39_SubmitLeavesLiveOrFailed ==
  (opc = "done" /\ Len(orderRows) > oloc.rows0) =>
    /\ oresult.kind = "return" => CurrentRow.status = "LIVE"
    /\ oresult.kind = "throw" => CurrentRow.status = "FAILED"
    /\ oresult.kind \in {"return", "throw"}

C39_Witness ==
  /\ opc = "done" /\ Len(orderRows) > oloc.rows0
  /\ Len(oloc.attempts) = 2
  /\ oresult.kind = "throw" /\ CurrentRow.status = "FAILED"

\* C40: an ensure call that ends in failure leaves the three approval flags
\* as they were before the call, with force and without it.
C40_FailedEnsureKeepsFlags ==
  (pc = "returned" /\ last.sub = "ensure" /\ last.kind = "throw") =>
    /\ user.usdcApproved = pre.usdcApproved
    /\ user.ctfApproved = pre.ctfApproved
    /\ user.negRiskApproved = pre.negRiskApproved

====
